---- MODULE Spec2Model ----
(***************************************************************************)
(* Connection lifecycle and inbound-message pipeline of the Kick.com       *)
(* WebSocket client (WebSocketManager + MessageParser).                    *)
(*                                                                         *)
(* The manager's fields are the variables below.  The environment (the     *)
(* metadata fetches in flight, the transports created so far, the pending  *)
(* timers and the promises handed to callers) is modelled next to them.    *)
(* Every handler is an operator from a state record to a state record, so  *)
(* that a handler which calls another one is the composition of both.      *)
(***************************************************************************)
EXTENDS Integers, Sequences, FiniteSets, TLC

VARIABLES
  connectionState,      \* this.connectionState
  channelName,          \* this.channelName
  channelId,            \* this.channelId
  isManualDisconnect,   \* this.isManualDisconnect
  ws,                   \* this.ws: index into transports, 0 = null
  reconnectTimer,       \* this.reconnectTimer: timer id, 0 = null
  connectionResolver,   \* this.connectionResolver: promise index, 0 = null
  connectionRejector,   \* this.connectionRejector: promise index, 0 = null
  customSubscriptions,  \* this.customSubscriptions: sequence of topics
  subscriptionMessages, \* this.subscriptionMessages: sequence of envelopes
  options,              \* this.options (autoReconnect, filteredEvents)
  transports,           \* every WebSocket created so far
  fetches,              \* getChannelInfo calls in flight
  promises,             \* one entry per connect() call that started an attempt
  timers,               \* ids of the pending reconnect timers
  attempts,             \* number of performConnection calls so far
  listeners,            \* the application's on()/once() registrations
  trace,                \* effects of the handler that ran last, in order
  parsed,               \* the MessageParser.parseMessage call of that handler
  lastOp                \* the handler that ran last

vars == <<connectionState, channelName, channelId, isManualDisconnect, ws,
          reconnectTimer, connectionResolver, connectionRejector,
          customSubscriptions, subscriptionMessages, options, transports,
          fetches, promises, timers, attempts, listeners, trace, parsed,
          lastOp>>

\* The manager's own fields: what a no-op must leave unchanged.
managerVars == <<connectionState, channelName, channelId, isManualDisconnect,
                 ws, reconnectTimer, connectionResolver, connectionRejector,
                 customSubscriptions, subscriptionMessages, options>>

envVars == <<transports, fetches, promises, timers, attempts>>

----------------------------------------------------------------------------
\* Bounds of the model.

\* performConnection calls (by connect() or by the reconnect timer) per run.
MaxAttempts == 2
\* Caller-added topic names, and caller-added raw envelopes.
MaxCustom == 1
\* Pieces a chat content is put together from.
MaxPieces == 2
\* Handlers the application registers, and calls of one handler.
MaxHandlers == 2
MaxCalls == 2

----------------------------------------------------------------------------
\* Topics.  A topic name is kept as (prefix, id, suffix): the template
\* literals of subscribeToChannels are the only place names are built.

Topic(p, id, s) == [p |-> p, id |-> id, s |-> s]
NoTopic == Topic("", 0, "")

ChannelNames == {"chanA", "chanB"}
\* The channel the attempts of a run are made for; the other name is passed
\* to connect() only while an attempt or a connection is in place.
WatchedChannel == "chanA"

\* chatroom.id in the metadata the platform returns for a channel name.
ChatroomOf(name) == IF name = "chanA" THEN 1 ELSE 2

AutoTopics(id) ==
  << Topic("chatroom_", id, ""),
     Topic("chatrooms.", id, ".v2"),
     Topic("channel_", id, ""),
     Topic("chatrooms.", id, ""),
     Topic("channel.", id, ""),
     Topic("predictions-channel-", id, "") >>

\* Topic names a caller may add: one that collides with an auto-derived
\* topic and one that does not.
CallerTopics == { Topic("chatroom_", 1, ""), Topic("my-topic", 0, "") }

\* Raw subscription envelopes a caller may supply (data.channel may be absent).
Envelope(ev, hasCh, ch) == [event |-> ev, hasChannel |-> hasCh, channel |-> ch]
CallerEnvelopes ==
  { Envelope("pusher:subscribe", TRUE, Topic("my-topic", 0, "")),
    Envelope("pusher:subscribe", FALSE, NoTopic) }

----------------------------------------------------------------------------
\* Effects recorded in trace.

Eff(k, a, n, c) == [k |-> k, a |-> a, n |-> n, c |-> c]
EffState(st) == Eff("state", st, 0, NoTopic)
EffEmit(ev, n) == Eff("emit", ev, n, NoTopic)
EffSend(ev, t, ch) == Eff("send", ev, t, ch)
EffResolve(p) == Eff("resolve", "", p, NoTopic)
EffReject(p) == Eff("reject", "", p, NoTopic)
EffFetch(name) == Eff("fetch", name, 0, NoTopic)
EffNewWs(t) == Eff("newws", "", t, NoTopic)
EffLog(msg) == Eff("log", msg, 0, NoTopic)
\* The runtime cancelled the pending reconnect timer id.
EffCancelled(id) == Eff("cancelled", "reconnect", id, NoTopic)
\* The transport t handed frame n to onmessage.
EffRecv(t, n) == Eff("recv", "", n, NoTopic)
\* ws.close(1000, "Manual disconnect") was called on transport t.
EffClose(t) == Eff("close", "", t, NoTopic)

Note(s, e) == [s EXCEPT !.trace = Append(@, e)]

\* The state record the handlers work on.
Cur ==
  [ connectionState |-> connectionState, channelName |-> channelName,
    channelId |-> channelId, isManualDisconnect |-> isManualDisconnect,
    ws |-> ws, reconnectTimer |-> reconnectTimer,
    connectionResolver |-> connectionResolver,
    connectionRejector |-> connectionRejector,
    customSubscriptions |-> customSubscriptions,
    subscriptionMessages |-> subscriptionMessages, options |-> options,
    transports |-> transports, fetches |-> fetches, promises |-> promises,
    timers |-> timers, attempts |-> attempts, listeners |-> listeners,
    trace |-> << >>, parsed |-> << >> ]

\* The handler returned: its result v becomes the state.
Commit(s, op) ==
  \E v \in {s} :
    /\ connectionState' = v.connectionState
    /\ channelName' = v.channelName
    /\ channelId' = v.channelId
    /\ isManualDisconnect' = v.isManualDisconnect
    /\ ws' = v.ws
    /\ reconnectTimer' = v.reconnectTimer
    /\ connectionResolver' = v.connectionResolver
    /\ connectionRejector' = v.connectionRejector
    /\ customSubscriptions' = v.customSubscriptions
    /\ subscriptionMessages' = v.subscriptionMessages
    /\ options' = v.options
    /\ transports' = v.transports
    /\ fetches' = v.fetches
    /\ promises' = v.promises
    /\ timers' = v.timers
    /\ attempts' = v.attempts
    /\ listeners' = v.listeners
    /\ trace' = v.trace
    /\ parsed' = v.parsed
    /\ lastOp' = op

----------------------------------------------------------------------------
\* EventEmitter, as far as the manager uses it for itself: the handlers
\* connect() registers with once("ready") and once("error") (cleanupTimeout).

ClearTimeoutOf(ps, ev) ==
  [p \in DOMAIN ps |->
     IF ev = "ready" /\ ps[p].onceReady
       THEN [ps[p] EXCEPT !.onceReady = FALSE, !.timeout = FALSE]
     ELSE IF ev = "error" /\ ps[p].onceError
       THEN [ps[p] EXCEPT !.onceError = FALSE, !.timeout = FALSE]
     ELSE ps[p]]

\* The application's handlers.  listeners holds every registration made so
\* far, in registration order: the event, whether it was made with once(),
\* whether the handler raises when called, how often it was called, and
\* whether it is still registered.
Listener(ev, once, raises) ==
  [ev |-> ev, once |-> once, raises |-> raises, calls |-> 0, active |-> TRUE]

\* Handler i was called for ev / the fault it raised was caught and logged /
\* the fault left emit.
EffCall(ev, i) == Eff("call", ev, i, NoTopic)
EffCaught(ev, i) == Eff("caught", ev, i, NoTopic)
EffThrow(ev, i) == Eff("throw", ev, i, NoTopic)

on(s, ev, raises) ==
  [s EXCEPT !.listeners = Append(@, Listener(ev, FALSE, raises))]

once(s, ev, raises) ==
  [s EXCEPT !.listeners = Append(@, Listener(ev, TRUE, raises))]

\* off(name, handler) for the handler of registration i; a handler that is
\* not registered (any more) is left as it is.
off(s, i) ==
  IF s.listeners[i].active THEN [s EXCEPT !.listeners[i].active = FALSE]
  ELSE s

\* A once() handler that stays registered after its call.
InvokeListener_KeepsOnce(s, i) ==
  LET h == s.listeners[i]
      s1 == [s EXCEPT !.listeners[i].calls = @ + 1,
                      !.trace = Append(@, EffCall(h.ev, i))]
  IN IF h.raises THEN Note(s1, EffCaught(h.ev, i)) ELSE s1

\* emit calls handler i: a once() handler is removed, the handler runs, and
\* a fault it raises is caught and logged.
InvokeListener(s, i) ==
  LET h == s.listeners[i]
      s1 == [s EXCEPT !.listeners[i].calls = @ + 1,
                      !.listeners[i].active = IF h.once THEN FALSE ELSE @,
                      !.trace = Append(@, EffCall(h.ev, i))]
  IN IF h.raises THEN Note(s1, EffCaught(h.ev, i)) ELSE s1

\* The registrations of ev, in registration order, from i on.
RECURSIVE InvokeListeners(_, _, _)
InvokeListeners(s, ev, i) ==
  IF i > Len(s.listeners) THEN s
  ELSE IF s.listeners[i].ev = ev /\ s.listeners[i].active
    THEN InvokeListeners(
           CHOOSE x \in { InvokeListener(v, i) : v \in {s} } : TRUE, ev, i + 1)
  ELSE InvokeListeners(s, ev, i + 1)

\* The same loop without the try/catch around the call: the first fault
\* ends the loop and leaves emit.
RECURSIVE InvokeListeners_NoCatch(_, _, _)
InvokeListeners_NoCatch(s, ev, i) ==
  IF i > Len(s.listeners) THEN s
  ELSE IF s.listeners[i].ev = ev /\ s.listeners[i].active
    THEN LET h == s.listeners[i]
             s1 == [s EXCEPT !.listeners[i].calls = @ + 1,
                             !.listeners[i].active =
                                IF h.once THEN FALSE ELSE @,
                             !.trace = Append(@, EffCall(h.ev, i))]
         IN IF h.raises THEN Note(s1, EffThrow(h.ev, i))
            ELSE InvokeListeners_NoCatch(s1, ev, i + 1)
  ELSE InvokeListeners_NoCatch(s, ev, i + 1)

emit_NoCatch(s, ev, n) ==
  InvokeListeners_NoCatch(
    [s EXCEPT !.trace = Append(@, EffEmit(ev, n)),
              !.promises = ClearTimeoutOf(@, ev)], ev, 1)

\* emit(ev, payload): the manager's own once() handlers, then the
\* application's handlers of ev.
emit(s, ev, n) ==
  InvokeListeners(
    [s EXCEPT !.trace = Append(@, EffEmit(ev, n)),
              !.promises = ClearTimeoutOf(@, ev)], ev, 1)

\* Calling the resolve / reject function of promise p.  Only the first call
\* settles the promise; every call is counted.
CallResolve(s, p) ==
  [s EXCEPT !.trace = Append(@, EffResolve(p)),
            !.promises[p].calls = @ + 1,
            !.promises[p].status = IF @ = "pending" THEN "resolved" ELSE @]

CallReject(s, p) ==
  [s EXCEPT !.trace = Append(@, EffReject(p)),
            !.promises[p].calls = @ + 1,
            !.promises[p].status = IF @ = "pending" THEN "rejected" ELSE @]

----------------------------------------------------------------------------
\* WebSocketManager

setConnectionState(s, st) ==
  [s EXCEPT !.connectionState = st, !.trace = Append(@, EffState(st))]

\* isConnected() that looks at the state alone.
isConnected_StateOnly(s) ==
  s.connectionState = "connected"

isConnected(s) ==
  /\ s.connectionState = "connected"
  /\ s.ws # 0
  /\ s.transports[s.ws].readyState = "open"

\* A timer id the runtime has not handed out for a timer that is still
\* pending or still referenced.
FreshTimer(s) ==
  CHOOSE id \in 1..(Cardinality(s.timers) + 2) :
    id \notin s.timers /\ id # s.reconnectTimer

\* clearTimeout(id) on a reconnect timer: a no-op when it fired already.
clearTimeout(s, id) ==
  IF id \in s.timers
    THEN [s EXCEPT !.timers = @ \ {id}, !.trace = Append(@, EffCancelled(id))]
    ELSE s

scheduleReconnect_NoClear(s) ==
  LET id == FreshTimer(s)
      s1 == setConnectionState(s, "reconnecting")
  IN [s1 EXCEPT !.timers = @ \cup {id}, !.reconnectTimer = id]

scheduleReconnect(s) ==
  LET id == FreshTimer(s)
      s0 == IF s.reconnectTimer # 0
              THEN clearTimeout(s, s.reconnectTimer)
              ELSE s
      s1 == setConnectionState(s0, "reconnecting")
  IN [s1 EXCEPT !.timers = @ \cup {id}, !.reconnectTimer = id]

\* handleConnectionError that gives up after MaxAttempts attempts.
handleConnectionError_CapsRetries(s) ==
  LET s1 == setConnectionState(s, "error")
      s2 == emit(s1, "error", 0)
      s3 == IF s2.connectionRejector # 0
              THEN CallReject(s2, s2.connectionRejector) ELSE s2
      s4 == [s3 EXCEPT !.connectionResolver = 0, !.connectionRejector = 0]
  IN IF s4.options.autoReconnect /\ ~s4.isManualDisconnect
          /\ s4.attempts < MaxAttempts
       THEN scheduleReconnect(s4) ELSE s4

handleConnectionError(s) ==
  LET s1 == setConnectionState(s, "error")
      s2 == emit(s1, "error", 0)
      s3 == IF s2.connectionRejector # 0
              THEN CallReject(s2, s2.connectionRejector) ELSE s2
      s4 == [s3 EXCEPT !.connectionResolver = 0, !.connectionRejector = 0]
  IN IF s4.options.autoReconnect /\ ~s4.isManualDisconnect
       THEN scheduleReconnect(s4) ELSE s4

handleDisconnect_IgnoresManualFlag(s, code) ==
  LET s1 == setConnectionState(s, "disconnected")
      s2 == emit(s1, "disconnect", code)
      s3 == IF s2.connectionRejector # 0
              THEN CallReject(s2, s2.connectionRejector) ELSE s2
      s4 == [s3 EXCEPT !.connectionResolver = 0, !.connectionRejector = 0]
  IN IF s4.options.autoReconnect
       THEN scheduleReconnect(s4) ELSE s4

handleDisconnect(s, code) ==
  LET s1 == setConnectionState(s, "disconnected")
      s2 == emit(s1, "disconnect", code)
      s3 == IF s2.connectionRejector # 0
              THEN CallReject(s2, s2.connectionRejector) ELSE s2
      s4 == [s3 EXCEPT !.connectionResolver = 0, !.connectionRejector = 0]
  IN IF s4.options.autoReconnect /\ ~s4.isManualDisconnect
       THEN scheduleReconnect(s4) ELSE s4

\* performConnection up to its await: the state change and the start of the
\* metadata fetch.  origin is the promise of the connect() call, 0 for the
\* reconnect timer.
performConnection(s, origin) ==
  LET s1 == setConnectionState(s, "connecting")
      s2 == Note(s1, EffFetch(s1.channelName))
  IN [s2 EXCEPT !.fetches = Append(@, [name |-> s1.channelName,
                                        origin |-> origin]),
                !.attempts = @ + 1]

NewPromise ==
  [status |-> "pending", calls |-> 0, timeout |-> TRUE,
   onceReady |-> TRUE, onceError |-> TRUE]

connect_NoConnectingGuard(s, name) ==
  IF s.connectionState = "connected"
    THEN Note(s, EffLog("Already connected or connecting"))
    ELSE LET p == Len(s.promises) + 1
             s1 == [s EXCEPT !.channelName = name,
                             !.isManualDisconnect = FALSE,
                             !.connectionResolver = p,
                             !.connectionRejector = p,
                             !.promises = Append(@, NewPromise)]
         IN performConnection(s1, p)

connect_NoOnceError(s, name) ==
  IF s.connectionState \in {"connected", "connecting"}
    THEN Note(s, EffLog("Already connected or connecting"))
    ELSE LET p == Len(s.promises) + 1
             s1 == [s EXCEPT !.channelName = name,
                             !.isManualDisconnect = FALSE,
                             !.connectionResolver = p,
                             !.connectionRejector = p,
                             !.promises =
                                Append(@, [NewPromise EXCEPT
                                             !.onceError = FALSE])]
         IN performConnection(s1, p)

connect(s, name) ==
  IF s.connectionState \in {"connected", "connecting"}
    THEN Note(s, EffLog("Already connected or connecting"))
    ELSE LET p == Len(s.promises) + 1
             s1 == [s EXCEPT !.channelName = name,
                             !.isManualDisconnect = FALSE,
                             !.connectionResolver = p,
                             !.connectionRejector = p,
                             !.promises = Append(@, NewPromise)]
         IN performConnection(s1, p)

\* The callback of the timeout connect() arms for promise p.
connectTimeout(s, p) ==
  LET s0 == [s EXCEPT !.promises[p].timeout = FALSE]
  IN IF s0.connectionState # "connected"
       THEN CallReject(handleConnectionError(s0), p)
       ELSE s0

\* ws.close(1000, "Manual disconnect") on transport t.
CloseTransport(ts, t) ==
  [ts EXCEPT ![t].readyState =
     IF @ \in {"connecting", "open"} THEN "closing" ELSE @]

disconnect_KeepsTransport(s) ==
  LET s1 == [s EXCEPT !.isManualDisconnect = TRUE]
      s2 == IF s1.reconnectTimer # 0
              THEN [clearTimeout(s1, s1.reconnectTimer)
                      EXCEPT !.reconnectTimer = 0]
              ELSE s1
      s3 == IF s2.ws # 0
              THEN [s2 EXCEPT !.transports = CloseTransport(@, s2.ws),
                              !.trace = Append(@, EffClose(s2.ws))]
              ELSE s2
  IN setConnectionState(s3, "disconnected")

disconnect_NoClearTimeout(s) ==
  LET s1 == [s EXCEPT !.isManualDisconnect = TRUE]
      s2 == [s1 EXCEPT !.reconnectTimer = 0]
      s3 == IF s2.ws # 0
              THEN [s2 EXCEPT !.transports = CloseTransport(@, s2.ws),
                              !.trace = Append(@, EffClose(s2.ws)),
                              !.ws = 0]
              ELSE s2
  IN setConnectionState(s3, "disconnected")

disconnect(s) ==
  LET s1 == [s EXCEPT !.isManualDisconnect = TRUE]
      s2 == IF s1.reconnectTimer # 0
              THEN [clearTimeout(s1, s1.reconnectTimer)
                      EXCEPT !.reconnectTimer = 0]
              ELSE s1
      s3 == IF s2.ws # 0
              THEN [s2 EXCEPT !.transports = CloseTransport(@, s2.ws),
                              !.trace = Append(@, EffClose(s2.ws)),
                              !.ws = 0]
              ELSE s2
  IN setConnectionState(s3, "disconnected")

----------------------------------------------------------------------------
\* performConnection after its await.

\* The metadata arrived: store the id, create the transport, attach handlers.
performConnectionResume(s, i) ==
  LET f == s.fetches[i]
      t == Len(s.transports) + 1
      rest == [j \in 1..(Len(s.fetches) - 1) |->
                 IF j < i THEN s.fetches[j] ELSE s.fetches[j + 1]]
  IN [s EXCEPT !.fetches = rest,
               !.channelId = ChatroomOf(f.name),
               !.transports = Append(@, [readyState |-> "connecting",
                                         closeDue |-> FALSE,
                                         sent |-> {}]),
               !.ws = t,
               !.trace = Append(@, EffNewWs(t))]

\* The metadata fetch failed: the catch block of performConnection, then the
\* catch of its caller (connect() clears its timeout and rejects; the
\* reconnect timer only logs).
performConnectionFail(s, i) ==
  LET f == s.fetches[i]
      rest == [j \in 1..(Len(s.fetches) - 1) |->
                 IF j < i THEN s.fetches[j] ELSE s.fetches[j + 1]]
      s1 == handleConnectionError([s EXCEPT !.fetches = rest])
  IN IF f.origin # 0
       THEN CallReject([s1 EXCEPT !.promises[f.origin].timeout = FALSE],
                       f.origin)
       ELSE Note(s1, EffLog("Reconnection failed"))

----------------------------------------------------------------------------
\* Subscriptions.

\* this.ws.send(frame): the frame goes out on the current transport, whose
\* sent field is the set of topics the relay holds a subscription for.
Send(s, ev, ch) ==
  [s EXCEPT !.trace = Append(@, EffSend(ev, s.ws, ch)),
            !.transports[s.ws].sent =
               IF ev = "pusher:subscribe" THEN @ \cup {ch}
               ELSE IF ev = "pusher:unsubscribe" THEN @ \ {ch}
               ELSE @]

sendSubscription(s, ev, ch) ==
  IF s.ws = 0 \/ s.transports[s.ws].readyState # "open"
    THEN Note(s, EffLog("Cannot send subscription: WebSocket not open"))
    ELSE emit(Send(s, ev, ch), "subscriptionSent", 0)

InSeq(x, q) == \E j \in 1..Len(q) : q[j] = x

\* The loop over this.customSubscriptions without the has() test.
RECURSIVE SubscribeTopics_NoDedupe(_, _, _)
SubscribeTopics_NoDedupe(r, list, j) ==
  IF j > Len(list) THEN r
  ELSE SubscribeTopics_NoDedupe(
         [s |-> sendSubscription(r.s, "pusher:subscribe", list[j]),
          seen |-> IF InSeq(list[j], r.seen) THEN r.seen
                   ELSE Append(r.seen, list[j])], list, j + 1)

\* The loop over this.customSubscriptions.  r.s is the state, r.seen the
\* insertion-ordered content of the local Set subscribedChannels.
\* One iteration of the loop over this.customSubscriptions.  r.s is the
\* state, r.seen the insertion-ordered content of the local Set
\* subscribedChannels.
SubscribeTopic(r, ch) ==
  IF ~InSeq(ch, r.seen)
    THEN [s |-> sendSubscription(r.s, "pusher:subscribe", ch),
          seen |-> Append(r.seen, ch)]
    ELSE [r EXCEPT !.s = Note(@, EffLog("Skipping duplicate subscription"))]

RECURSIVE SubscribeTopics(_, _, _)
SubscribeTopics(r, list, j) ==
  IF j > Len(list) THEN r
  ELSE SubscribeTopics(
         CHOOSE x \in { SubscribeTopic(v, list[j]) : v \in {r} } : TRUE,
         list, j + 1)

\* One iteration of the loop over this.subscriptionMessages.
SubscribeEnvelope(r, m) ==
  IF m.hasChannel /\ m.channel # NoTopic /\ ~InSeq(m.channel, r.seen)
    THEN [s |-> sendSubscription(r.s, m.event, m.channel),
          seen |-> Append(r.seen, m.channel)]
    ELSE [r EXCEPT !.s =
            Note(@, EffLog("Skipping duplicate subscription message"))]

\* The loop over this.subscriptionMessages.
RECURSIVE SubscribeEnvelopes(_, _, _)
SubscribeEnvelopes(r, list, j) ==
  IF j > Len(list) THEN r
  ELSE SubscribeEnvelopes(
         CHOOSE x \in { SubscribeEnvelope(v, list[j]) : v \in {r} } : TRUE,
         list, j + 1)

\* The topics reported by 'ready', one effect per element of the array.
RECURSIVE NoteTopics(_, _, _)
NoteTopics(s, seen, j) ==
  IF j > Len(seen) THEN s
  ELSE NoteTopics(Note(s, Eff("ready-topic", "", j, seen[j])), seen, j + 1)

\* The channel field of the payload of 'ready'.
NoteChannel(s) == Note(s, Eff("ready-channel", s.channelName, 0, NoTopic))

FinishHandshake_ReadyBeforeConnected(r) ==
  LET s2 == emit(NoteTopics(NoteChannel(r.s), r.seen, 1), "ready", Len(r.seen))
      s3 == setConnectionState(s2, "connected")
      s4 == IF s3.connectionResolver # 0
              THEN CallResolve(s3, s3.connectionResolver) ELSE s3
  IN [s4 EXCEPT !.connectionResolver = 0, !.connectionRejector = 0]

\* The end of subscribeToChannels, after the two loops left r: the state
\* change, the 'ready' event and the resolver.
FinishHandshake(r) ==
  LET s2 == setConnectionState(r.s, "connected")
      s3 == emit(NoteTopics(NoteChannel(s2), r.seen, 1), "ready", Len(r.seen))
      s4 == IF s3.connectionResolver # 0
              THEN CallResolve(s3, s3.connectionResolver) ELSE s3
  IN [s4 EXCEPT !.connectionResolver = 0, !.connectionRejector = 0]

subscribeToChannels_ReadyBeforeConnected(s) ==
  IF s.ws = 0 THEN s
  ELSE
    LET s1 == [s EXCEPT !.customSubscriptions = @ \o AutoTopics(s.channelId)]
        r1 == SubscribeTopics([s |-> s1, seen |-> << >>],
                              s1.customSubscriptions, 1)
        r2 == SubscribeEnvelopes(r1, s1.subscriptionMessages, 1)
    IN CHOOSE x \in { FinishHandshake_ReadyBeforeConnected(r) : r \in {r2} } :
         TRUE

subscribeToChannels_NoDedupe(s) ==
  IF s.ws = 0 THEN s
  ELSE
    LET s1 == [s EXCEPT !.customSubscriptions = @ \o AutoTopics(s.channelId)]
        r1 == SubscribeTopics_NoDedupe([s |-> s1, seen |-> << >>],
                                       s1.customSubscriptions, 1)
        r2 == SubscribeEnvelopes(r1, s1.subscriptionMessages, 1)
    IN CHOOSE x \in { FinishHandshake(r) : r \in {r2} } : TRUE

subscribeToChannels(s) ==
  IF s.ws = 0 THEN s
  ELSE
    LET s1 == [s EXCEPT !.customSubscriptions = @ \o AutoTopics(s.channelId)]
        r1 == SubscribeTopics([s |-> s1, seen |-> << >>],
                              s1.customSubscriptions, 1)
        r2 == SubscribeEnvelopes(r1, s1.subscriptionMessages, 1)
    IN CHOOSE x \in { FinishHandshake(r) : r \in {r2} } : TRUE

subscribeToChannel(s, ch) ==
  IF ~isConnected(s)
    THEN Note(s, EffLog("Cannot subscribe: not connected"))
    ELSE sendSubscription(s, "pusher:subscribe", ch)

unsubscribeFromChannel(s, ch) ==
  IF ~isConnected(s)
    THEN Note(s, EffLog("Cannot unsubscribe: not connected"))
    ELSE IF s.ws # 0 THEN Send(s, "pusher:unsubscribe", ch)
    ELSE s

\* sendPing with the test for an absent transport only.
sendPing_NoReadyStateTest(s) ==
  IF s.ws = 0
    THEN Note(s, EffLog("Cannot send ping: WebSocket not open"))
    ELSE emit(Send(s, "pusher:ping", NoTopic), "pingSent", 0)

sendPing(s) ==
  IF s.ws = 0 \/ s.transports[s.ws].readyState # "open"
    THEN Note(s, EffLog("Cannot send ping: WebSocket not open"))
    ELSE emit(Send(s, "pusher:ping", NoTopic), "pingSent", 0)

addCustomSubscriptions(s, chs) ==
  [s EXCEPT !.customSubscriptions = @ \o chs]

addSubscriptionMessages(s, msgs) ==
  [s EXCEPT !.subscriptionMessages = @ \o msgs]

clearCustomSubscriptions(s) ==
  [s EXCEPT !.customSubscriptions = << >>, !.subscriptionMessages = << >>]

----------------------------------------------------------------------------
\* Wire frames.  An event name is a sequence of tokens, so that
\* startsWith("pusher:") is a test on the first token; the empty string is
\* the empty sequence.

NS == "App\\Events\\"
PUSHER == "pusher:"
PUSHER_INTERNAL == "pusher_internal:"

DomainKinds ==
  << "ChatMessage", "MessageDeleted", "UserBanned", "UserUnbanned",
     "Subscription", "GiftedSubscriptions", "PinnedMessageCreated",
     "StreamHost", "PollUpdate", "PollDelete", "RewardRedeemed",
     "KicksGifted" >>

BareName(kind) ==
  CASE kind = "ChatMessage" -> "ChatMessageEvent"
    [] kind = "MessageDeleted" -> "MessageDeletedEvent"
    [] kind = "UserBanned" -> "UserBannedEvent"
    [] kind = "UserUnbanned" -> "UserUnbannedEvent"
    [] kind = "Subscription" -> "SubscriptionEvent"
    [] kind = "GiftedSubscriptions" -> "GiftedSubscriptionsEvent"
    [] kind = "PinnedMessageCreated" -> "PinnedMessageCreatedEvent"
    [] kind = "StreamHost" -> "StreamHostEvent"
    [] kind = "PollUpdate" -> "PollUpdateEvent"
    [] kind = "PollDelete" -> "PollDeleteEvent"
    [] kind = "RewardRedeemed" -> "RewardRedeemedEvent"
    [] OTHER -> kind

\* The ten kinds whose wire name carries the namespace.
Namespaced == { DomainKinds[j] : j \in 1..10 }

\* enum KickEvent of the parser: kind -> wire name.
KickEvent(kind) ==
  IF kind \in Namespaced THEN << NS, BareName(kind) >>
  ELSE << BareName(kind) >>

\* LEGACY_EVENT_MAPPING: the bare form of a namespaced name.
LegacyName(kind) == << BareName(kind) >>
IsLegacyName(ev) == \E k \in Namespaced : ev = LegacyName(k)
LEGACY_EVENT_MAPPING(ev) ==
  KickEvent(CHOOSE k \in Namespaced : ev = LegacyName(k))

\* EVENT_TYPE_MAP of the manager: wire name -> kind, ten entries.
InEventTypeMap(ev) == \E k \in Namespaced : ev = << NS, BareName(k) >>
EVENT_TYPE_MAP(ev) == CHOOSE k \in Namespaced : ev = << NS, BareName(k) >>

Frame(text, hasEvent, event, data, payload) ==
  [text |-> text, hasEvent |-> hasEvent, eventIsString |-> TRUE,
   event |-> event, data |-> data, payload |-> payload]

\* An envelope whose event field is a non-zero number.
NumberEventFrame(data, payload) ==
  [Frame("object", TRUE, << >>, data, payload) EXCEPT !.eventIsString = FALSE]

\* text: "empty" | "blank" | "garbage" (not JSON) | "null" (the JSON null)
\*   | "scalar" (JSON number, string, boolean or array) | "object"
\* hasEvent: the event field is present and truthy; event: the tokens of a
\*   string event name (<< >> otherwise)
\* data: "absent" | "empty" (the string "") | "garbage" (a string that is
\*   not JSON) | "json" (a string holding the JSON payload)
\*   | "object" (an object instead of a string: JSON.parse raises on it)
\*   | "number" (a number instead of a string: JSON.parse returns it)
\*   | "null" (null instead of a string: JSON.parse returns null)
\* payload (the JSON in data): "full" (every field of the Raw*Data type),
\*   "bare" (the object {}), "null", "scalar" (a number, string or boolean)
TextKinds == {"empty", "blank", "garbage", "null", "scalar", "object"}
DataKinds == {"absent", "empty", "garbage", "json", "object", "number", "null"}
\*   "fields" (an object whose fields the frame carries in body)
PayloadKinds == {"full", "bare", "null", "scalar"}
WireNames ==
  [j \in 1..12 |-> KickEvent(DomainKinds[j])] \o
  [j \in 1..10 |-> LegacyName(DomainKinds[j])] \o
  << << PUSHER, "pong" >>, << PUSHER, "connection_established" >>,
     << PUSHER_INTERNAL, "subscription_succeeded" >>,
     << NS, "SomethingElseEvent" >> >>

\* Wire payloads with their fields (payload kind "fields"): the frame carries
\* the object JSON.parse(message.data) returns in body.  An optional field
\* is [has, v]; has is FALSE for a field that is absent or null, and v is
\* then not looked at.
Opt(v) == [has |-> TRUE, v |-> v]
None(default) == [has |-> FALSE, v |-> default]

\* A frame whose data holds the JSON of body.
BodyFrame(event, body) ==
  [text |-> "object", hasEvent |-> TRUE, eventIsString |-> TRUE,
   event |-> event, data |-> "json", payload |-> "fields", body |-> body]

\* A chat content is a sequence of characters: "[emote:" stands for the
\* seven characters of the opener, "1" and "2" are digits, "K" and "a"
\* letters, ":" and "]" themselves, and " " any other character.
\* The pieces contents are put together from: plain text, two placeholders,
\* and texts that come close to one (no id, no name, a letter in the id, no
\* closing bracket, a closing bracket alone).
ContentPieces ==
  { << "a", " " >>,
    << "[emote:", "1", "2", ":", "K", "a", "]" >>,
    << "[emote:", "1", ":", "K", "2", "]" >>,
    << "[emote:", ":", "K", "]" >>,
    << "[emote:", "1", ":", "]" >>,
    << "[emote:", "K", ":", "a", "]" >>,
    << "[emote:", "1", ":", "K" >>,
    << "]" >> }

RECURSIVE ContentsOf(_)
ContentsOf(n) ==
  IF n = 0 THEN { << >> }
  ELSE LET shorter == ContentsOf(n - 1)
       IN shorter \cup { c \o q : c \in shorter, q \in ContentPieces }

\* The content field: absent, or a string of up to MaxPieces pieces.
Contents ==
  { None(<< >>) } \cup { Opt(c) : c \in ContentsOf(MaxPieces) }

\* sender.identity: absent, or an object whose color and badges may be
\* absent (the color may also be the empty string).
Identities ==
  { None([color |-> None(""), badges |-> None(<< >>)]) } \cup
  { Opt([color |-> c, badges |-> b]) :
      c \in { None(""), Opt(""), Opt("#ff0000") },
      b \in { None(<< >>), Opt(<< >>), Opt(<< "vip" >>) } }

Sender(identity) ==
  [id |-> 7, username |-> "bob", slug |-> "bob", identity |-> identity]

\* sender: absent, or an object with one of the identities.
Senders ==
  { None(Sender(None([color |-> None(""), badges |-> None(<< >>)]))) } \cup
  { Opt(Sender(i)) : i \in Identities }

\* chatroom: absent, or an object whose id may be absent.
Chatrooms ==
  { None([id |-> None(0)]) } \cup
  { Opt([id |-> i]) : i \in { None(0), Opt(0), Opt(5) } }

ChatBody(content, sender, chatroom) ==
  [id |-> "m1", content |-> content, created_at |-> "t1",
   sender |-> sender, chatroom |-> chatroom]

FullSender ==
  Opt(Sender(Opt([color |-> Opt("#ff0000"), badges |-> Opt(<< "vip" >>)])))
FullChatroom == Opt([id |-> Opt(5)])
\* "a [emote:12:Ka]"
SomeContent ==
  Opt(<< "a", " ", "[emote:", "1", "2", ":", "K", "a", "]" >>)

\* Chat payloads that differ in their content.
ContentBodies == { ChatBody(c, FullSender, FullChatroom) : c \in Contents }

\* Chat payloads that differ in their sender and chatroom.
IdentityBodies ==
  { ChatBody(SomeContent, s, r) : s \in Senders, r \in Chatrooms }

\* Pinned-message payloads: message absent, or a chat payload.
PinnedBodies ==
  { [message |-> None(ChatBody(SomeContent, FullSender, FullChatroom))] }
  \cup { [message |-> Opt(ChatBody(c, FullSender, FullChatroom))] :
           c \in { None(<< >>), SomeContent }
                 \cup { Opt(q \o q) : q \in ContentPieces } }
  \cup { [message |-> Opt(ChatBody(SomeContent, s, FullChatroom))] :
            s \in Senders }

\* Ban and unban payloads: each of the three field names absent, empty or
\* a name.
BanBodies ==
  { [username |-> u, banned_username |-> b, unbanned_username |-> n] :
      u \in { None(""), Opt(""), Opt("x") },
      b \in { None(""), Opt(""), Opt("y") },
      n \in { None(""), Opt(""), Opt("z") } }

\* The frames with such payloads, under the namespaced wire name.
BodyInputs ==
  { BodyFrame(KickEvent("ChatMessage"), b) :
      b \in ContentBodies \cup IdentityBodies }
  \cup { BodyFrame(KickEvent("PinnedMessageCreated"), b) : b \in PinnedBodies }
  \cup { BodyFrame(KickEvent(k), b) :
           k \in {"UserBanned", "UserUnbanned"}, b \in BanBodies }

Frames ==
  [j \in 1..Len(WireNames) |->
     Frame("object", TRUE, WireNames[j], "json", "full")] \o
  << Frame("object", TRUE, KickEvent("ChatMessage"), "json", "bare"),
     Frame("object", TRUE, KickEvent("UserBanned"), "json", "bare"),
     Frame("object", TRUE, KickEvent("UserBanned"), "json", "null"),
     Frame("object", TRUE, KickEvent("ChatMessage"), "garbage", "full"),
     Frame("object", TRUE, KickEvent("ChatMessage"), "empty", "full"),
     Frame("object", TRUE, KickEvent("ChatMessage"), "absent", "full"),
     Frame("object", TRUE, << >>, "json", "full"),
     Frame("object", FALSE, << >>, "json", "full"),
     Frame("null", FALSE, << >>, "absent", "full"),
     Frame("garbage", FALSE, << >>, "absent", "full"),
     Frame("blank", FALSE, << >>, "absent", "full"),
     Frame("empty", FALSE, << >>, "absent", "full"),
     Frame("scalar", FALSE, << >>, "absent", "full"),
     NumberEventFrame("json", "full"),
     Frame("object", TRUE, KickEvent("UserBanned"), "object", "full"),
     Frame("object", TRUE, KickEvent("UserBanned"), "number", "full") >>

\* The strings parseMessage is applied to directly.
ParseInputs ==
  { Frame(text, FALSE, << >>, "absent", "full") : text \in TextKinds }
  \cup { Frame("object", TRUE, WireNames[j], data, "full") :
           j \in DOMAIN WireNames, data \in DataKinds }
  \cup { Frame("object", TRUE, WireNames[j], "json", payload) :
           j \in DOMAIN WireNames, payload \in PayloadKinds }
  \cup { Frame("object", hasEvent, << >>, data, "full") :
           hasEvent \in BOOLEAN, data \in DataKinds }
  \cup { NumberEventFrame(data, "full") : data \in DataKinds }
  \cup BodyInputs

----------------------------------------------------------------------------
\* MessageParser

startsWith(ev, prefix) == Len(ev) > 0 /\ ev[1] = prefix
IsSystemEvent(ev) == startsWith(ev, PUSHER) \/ startsWith(ev, PUSHER_INTERNAL)

\* JSON.parse(rawMessage) returns (does not throw).
JsonParses(f) == f.text \in {"null", "scalar", "object"}

\* !message.event
NoEvent(f) == ~f.hasEvent \/ (f.eventIsString /\ f.event = << >>)

\* The transformed payload: the per-kind shape built from the wire payload.
NoData == [shape |-> "", from |-> ""]
Transformed(kind, payload) == [shape |-> kind, from |-> payload]

\* The results of parseMessage: null, and (inside the try block) an
\* exception on its way to the catch.
Null ==
  [ok |-> FALSE, raised |-> FALSE, type |-> "", data |-> NoData,
   legacyType |-> << >>, isLegacy |-> FALSE]
Raised == [Null EXCEPT !.raised = TRUE]

\* Whether the transform of a kind raises on a payload: it reads a field of
\* an absent object.
TransformThrows(kind, payload) ==
  \/ payload = "null"
  \/ payload \in {"bare", "scalar"}
       /\ kind \in {"ChatMessage", "PinnedMessageCreated", "KicksGifted"}

\* The inner try block: JSON.parse(message.data).
DataParses(f) == f.data \in {"json", "number", "null"}
EventData(f) ==
  CASE f.data = "json" -> f.payload
    [] f.data = "number" -> "scalar"
    [] OTHER -> "null"

----------------------------------------------------------------------------
\* The transforms on wire payloads with their fields.

\* The character classes of the pattern of cleanEmotes: \d and \w.
Digits == {"1", "2"}
WordChars == Digits \cup {"K", "a"}

\* The position after the longest run of characters of class S from i on.
RunEnd(c, i, S) ==
  CHOOSE j \in i..(Len(c) + 1) :
    /\ \A k \in i..(j - 1) : c[k] \in S
    /\ j = Len(c) + 1 \/ c[j] \notin S

\* One attempt of /\[emote:(\d+):(\w+)\]/ at position i: both groups are
\* greedy, and neither ":" nor "]" is in the class it ends.
MatchAt(c, i) ==
  LET d == RunEnd(c, i + 1, Digits)
      w == RunEnd(c, d + 1, WordChars)
  IN IF /\ c[i] = "[emote:"
        /\ d > i + 1 /\ d <= Len(c) /\ c[d] = ":"
        /\ w > d + 1 /\ w <= Len(c) /\ c[w] = "]"
       THEN [ok |-> TRUE, word |-> SubSeq(c, d + 1, w - 1), end |-> w]
       ELSE [ok |-> FALSE, word |-> << >>, end |-> i]

\* content.replace(/.../g, "$2"): the matches are looked for from left to
\* right, each search starting after the previous match.
RECURSIVE ReplaceAll(_, _)
ReplaceAll(c, i) ==
  IF i > Len(c) THEN << >>
  ELSE LET m == MatchAt(c, i)
       IN IF m.ok THEN m.word \o ReplaceAll(c, m.end + 1)
          ELSE << c[i] >> \o ReplaceAll(c, i + 1)

\* The same without the g flag: the first match only.
RECURSIVE ReplaceFirst(_, _)
ReplaceFirst(c, i) ==
  IF i > Len(c) THEN << >>
  ELSE LET m == MatchAt(c, i)
       IN IF m.ok THEN m.word \o SubSeq(c, m.end + 1, Len(c))
          ELSE << c[i] >> \o ReplaceFirst(c, i + 1)

cleanEmotes_FirstOnly(content) ==
  IF ~content.has \/ content.v = << >> THEN << >>
  ELSE ReplaceFirst(content.v, 1)

cleanEmotes(content) ==
  IF ~content.has \/ content.v = << >> THEN << >>
  ELSE ReplaceAll(content.v, 1)

\* x || fallback for a string field.
OrElse(x, fallback) == IF x.has /\ x.v # "" THEN x.v ELSE fallback

\* parseChatMessage that passes the identity through as it is.
parseChatMessage_NoDefaults(data) ==
  [ id |-> data.id,
    content |-> cleanEmotes(data.content),
    type |-> "message",
    created_at |-> data.created_at,
    sender |->
      [ id |-> data.sender.v.id,
        username |-> data.sender.v.username,
        slug |-> data.sender.v.slug,
        identity |->
          [ color |-> IF data.sender.v.identity.has
                        THEN data.sender.v.identity.v.color
                        ELSE None(""),
            badges |-> IF data.sender.v.identity.has
                         THEN data.sender.v.identity.v.badges
                         ELSE None(<< >>) ] ],
    chatroom |->
      [ id |-> IF data.chatroom.has THEN data.chatroom.v.id ELSE None(0) ] ]

\* parseChatMessage, for a payload with a sender.  A field of the result is
\* [has, v] as well: has is FALSE for undefined.
parseChatMessage(data) ==
  [ id |-> data.id,
    content |-> cleanEmotes(data.content),
    type |-> "message",
    created_at |-> data.created_at,
    sender |->
      [ id |-> data.sender.v.id,
        username |-> data.sender.v.username,
        slug |-> data.sender.v.slug,
        identity |->
          [ color |-> Opt(IF data.sender.v.identity.has
                            THEN OrElse(data.sender.v.identity.v.color,
                                        "#ffffff")
                            ELSE "#ffffff"),
            badges |-> Opt(IF /\ data.sender.v.identity.has
                              /\ data.sender.v.identity.v.badges.has
                            THEN data.sender.v.identity.v.badges.v
                            ELSE << >>) ] ],
    chatroom |->
      [ id |-> Opt(IF data.chatroom.has /\ data.chatroom.v.id.has
                     THEN data.chatroom.v.id.v ELSE 0) ] ]

parsePinnedMessageCreated(data) ==
  [ message |-> parseChatMessage(data.message.v),
    type |-> "pinned_message_created" ]

parseUserBanned(data) ==
  [ username |-> OrElse(data.username,
                        OrElse(data.banned_username, "unknown")),
    type |-> "user_banned" ]

\* parseUserUnbanned reading the field name of the ban payload.
parseUserUnbanned_ReadsBannedField(data) ==
  [ username |-> OrElse(data.username,
                        OrElse(data.banned_username, "unknown")),
    type |-> "user_unbanned" ]

parseUserUnbanned(data) ==
  [ username |-> OrElse(data.username,
                        OrElse(data.unbanned_username, "unknown")),
    type |-> "user_unbanned" ]

\* Whether the transform of a kind raises on body: it reads a field of
\* data.sender, or of data.message, which is absent.
BodyThrows(kind, body) ==
  CASE kind = "ChatMessage" -> ~body.sender.has
    [] kind = "PinnedMessageCreated" ->
         ~body.message.has \/ ~body.message.v.sender.has
    [] OTHER -> FALSE

\* The result of the transform of a kind on body.
TransformBody(kind, body) ==
  [ shape |-> kind, from |-> "fields",
    value |-> CASE kind = "ChatMessage" -> parseChatMessage(body)
                [] kind = "PinnedMessageCreated" ->
                     parsePinnedMessageCreated(body)
                [] kind = "UserBanned" -> parseUserBanned(body)
                [] kind = "UserUnbanned" -> parseUserUnbanned(body) ]

\* The transform of the case the switch took.
Throws(kind, eventData, f) ==
  IF eventData = "fields" THEN BodyThrows(kind, f.body)
  ELSE TransformThrows(kind, eventData)

Transform(kind, eventData, f) ==
  IF eventData = "fields" THEN TransformBody(kind, f.body)
  ELSE Transformed(kind, eventData)

\* The body of the try block of parseMessage.
parseMessageTry_LegacyTypeAlways(f) ==
  IF f.text \in {"empty", "blank"} THEN Null
  ELSE IF ~JsonParses(f) THEN Raised
  ELSE IF f.text = "null" THEN Raised
  ELSE IF f.text = "scalar" THEN Null
  ELSE IF NoEvent(f) \/ f.data = "absent" THEN Null
  ELSE IF ~f.eventIsString THEN Raised
  ELSE IF IsSystemEvent(f.event) THEN Null
  ELSE IF f.data = "empty" THEN Null
  ELSE IF ~DataParses(f) THEN Null
  ELSE
    LET eventData == EventData(f)
        normalizedEvent == IF IsLegacyName(f.event)
                             THEN LEGACY_EVENT_MAPPING(f.event) ELSE f.event
        known == \E j \in 1..12 : normalizedEvent = KickEvent(DomainKinds[j])
    IN IF ~known THEN Null
       ELSE LET kind == CHOOSE k \in {DomainKinds[j] : j \in 1..12} :
                           normalizedEvent = KickEvent(k)
            IN IF Throws(kind, eventData, f) THEN Raised
               ELSE [ok |-> TRUE, raised |-> FALSE, type |-> kind,
                     data |-> Transform(kind, eventData, f),
                     legacyType |-> f.event, isLegacy |-> TRUE]

parseMessageTry(f) ==
  IF f.text \in {"empty", "blank"} THEN Null
  ELSE IF ~JsonParses(f) THEN Raised
  ELSE IF f.text = "null" THEN Raised
  ELSE IF f.text = "scalar" THEN Null
  ELSE IF NoEvent(f) \/ f.data = "absent" THEN Null
  ELSE IF ~f.eventIsString THEN Raised
  ELSE IF IsSystemEvent(f.event) THEN Null
  ELSE IF f.data = "empty" THEN Null
  ELSE IF ~DataParses(f) THEN Null
  ELSE
    LET eventData == EventData(f)
        normalizedEvent == IF IsLegacyName(f.event)
                             THEN LEGACY_EVENT_MAPPING(f.event) ELSE f.event
        isLegacyFormat == f.event # normalizedEvent
        known == \E j \in 1..12 : normalizedEvent = KickEvent(DomainKinds[j])
    IN IF ~known THEN Null
       ELSE LET kind == CHOOSE k \in {DomainKinds[j] : j \in 1..12} :
                           normalizedEvent = KickEvent(k)
            IN IF Throws(kind, eventData, f) THEN Raised
               ELSE [ok |-> TRUE, raised |-> FALSE, type |-> kind,
                     data |-> Transform(kind, eventData, f),
                     legacyType |-> IF isLegacyFormat THEN f.event ELSE << >>,
                     isLegacy |-> isLegacyFormat]

\* parseMessage without its catch block.
parseMessage_NoCatch(f) == parseMessageTry(f)

\* parseMessage: the try block, and the catch that turns every exception
\* into null.
parseMessage(f) ==
  LET r == parseMessageTry(f)
  IN IF r.raised THEN Null ELSE r

\* extractEventType: has |-> FALSE is null.
extractEventType(f) ==
  IF f.text \in {"empty", "blank"} \/ ~JsonParses(f) \/ f.text = "null"
       \/ f.text = "scalar" \/ NoEvent(f) \/ ~f.eventIsString
    THEN [has |-> FALSE, event |-> << >>]
  ELSE IF IsSystemEvent(f.event) THEN [has |-> FALSE, event |-> << >>]
  ELSE [has |-> TRUE, event |-> f.event]

----------------------------------------------------------------------------
\* Inbound messages.

isEventFiltered(s, eventType) ==
  IF s.options.filteredEvents = {} THEN FALSE
  ELSE IF InEventTypeMap(eventType)
    THEN EVENT_TYPE_MAP(eventType) \notin s.options.filteredEvents
  ELSE FALSE

\* The handler called MessageParser.parseMessage on f and got r.
NoteParse(s, f, r) ==
  [s EXCEPT !.parsed = Append(@, [input |-> f, output |-> r])]

\* n is the index of the frame in Frames.
handleMessage_RawAfterSystem(s, n) ==
  LET f == Frames[n]
  IN IF f.text = "object" /\ f.hasEvent /\ IsSystemEvent(f.event)
       THEN (IF f.event = << PUSHER, "pong" >> THEN sendPing(s) ELSE s)
       ELSE
         LET s1 == emit(s, "rawMessage", n)
             eventType == extractEventType(f)
         IN IF eventType.has /\ isEventFiltered(s1, eventType.event)
              THEN Note(s1, EffLog("Event filtered"))
              ELSE LET parsedMessage == parseMessage(f)
                       s2 == NoteParse(s1, f, parsedMessage)
                   IN IF parsedMessage.ok
                        THEN emit(s2, parsedMessage.type, n)
                        ELSE s2

handleMessage_PingOnEverySystemEvent(s, n) ==
  LET f == Frames[n]
      s1 == emit(s, "rawMessage", n)
  IN IF f.text = "object" /\ f.hasEvent /\ IsSystemEvent(f.event)
       THEN Note(sendPing(s1), EffLog("Ignoring Pusher system event"))
       ELSE
         LET eventType == extractEventType(f)
         IN IF eventType.has /\ isEventFiltered(s1, eventType.event)
              THEN Note(s1, EffLog("Event filtered"))
              ELSE LET parsedMessage == parseMessage(f)
                       s2 == NoteParse(s1, f, parsedMessage)
                   IN IF parsedMessage.ok
                        THEN emit(s2, parsedMessage.type, n)
                        ELSE s2

\* handleMessage that treats a frame the parser returns null for as a
\* connection error.
handleMessage_ParseFailureIsError(s, n) ==
  LET f == Frames[n]
      s1 == emit(s, "rawMessage", n)
  IN IF f.text = "object" /\ f.hasEvent /\ IsSystemEvent(f.event)
       THEN LET s2 == IF f.event = << PUSHER, "pong" >>
                        THEN sendPing(s1) ELSE s1
            IN Note(s2, EffLog("Ignoring Pusher system event"))
       ELSE
         LET eventType == extractEventType(f)
         IN IF eventType.has /\ isEventFiltered(s1, eventType.event)
              THEN Note(s1, EffLog("Event filtered"))
              ELSE LET parsedMessage == parseMessage(f)
                       s2 == NoteParse(s1, f, parsedMessage)
                   IN IF parsedMessage.ok
                        THEN emit(s2, parsedMessage.type, n)
                        ELSE handleConnectionError(s2)

handleMessage(s, n) ==
  LET f == Frames[n]
      s1 == emit(s, "rawMessage", n)
  IN IF f.text = "object" /\ f.hasEvent /\ IsSystemEvent(f.event)
       THEN LET s2 == IF f.event = << PUSHER, "pong" >>
                        THEN sendPing(s1) ELSE s1
            IN Note(s2, EffLog("Ignoring Pusher system event"))
       ELSE
         LET eventType == extractEventType(f)
         IN IF eventType.has /\ isEventFiltered(s1, eventType.event)
              THEN Note(s1, EffLog("Event filtered"))
              ELSE LET parsedMessage == parseMessage(f)
                       s2 == NoteParse(s1, f, parsedMessage)
                   IN IF parsedMessage.ok
                        THEN emit(s2, parsedMessage.type, n)
                        ELSE s2

----------------------------------------------------------------------------
\* Transport callbacks (setupWebSocketHandlers).

onopen(s) == subscribeToChannels(s)

onerror(s) ==
  LET s1 == emit(s, "error", 0)
  IN IF s1.connectionRejector # 0
       THEN CallReject(s1, s1.connectionRejector) ELSE s1

onclose(s, code) == handleDisconnect(s, code)

reconnectTimerFired_OnlyLogs(s) ==
  Note(s, EffLog("Attempting to reconnect..."))

\* The callback of the reconnect timer.
reconnectTimerFired(s) ==
  performConnection(Note(s, EffLog("Attempting to reconnect...")), 0)

----------------------------------------------------------------------------
\* Initial state: a newly constructed manager.

FilterChoices == { {}, {"ChatMessage"}, {"ChatMessage", "RewardRedeemed"} }

InitWith(autos, filters) ==
  /\ connectionState = "disconnected"
  /\ channelName = ""
  /\ channelId = 0
  /\ isManualDisconnect = FALSE
  /\ ws = 0
  /\ reconnectTimer = 0
  /\ connectionResolver = 0
  /\ connectionRejector = 0
  /\ customSubscriptions = << >>
  /\ subscriptionMessages = << >>
  /\ options \in [autoReconnect : autos, filteredEvents : filters]
  /\ transports = << >>
  /\ fetches = << >>
  /\ promises = << >>
  /\ timers = {}
  /\ attempts = 0
  /\ listeners = << >>
  /\ trace = << >>
  /\ parsed = << >>
  /\ lastOp = "new"

Init == InitWith(BOOLEAN, { {} })

----------------------------------------------------------------------------
\* Actions.

\* The caller calls connect(name).
Connect(name) ==
  /\ \/ connectionState \in {"connected", "connecting"}
     \/ attempts < MaxAttempts /\ name = WatchedChannel
  /\ Commit(connect(Cur, name), "connect")

\* The caller calls disconnect().
Disconnect ==
  Commit(disconnect(Cur), "disconnect")

\* The metadata fetch i returns the channel.
FetchOk(i) ==
  /\ i \in DOMAIN fetches
  /\ Commit(performConnectionResume(Cur, i), "fetchOk")

\* The metadata fetch i fails (HTTP error, network failure).
FetchFail(i) ==
  /\ i \in DOMAIN fetches
  /\ Commit(performConnectionFail(Cur, i), "fetchFail")

\* connectionTimeout elapses for the connect() call of promise p.
ConnectTimeout(p) ==
  /\ p \in DOMAIN promises
  /\ promises[p].timeout
  /\ Commit(connectTimeout(Cur, p), "timeout")

\* reconnectInterval elapses for the pending reconnect timer id.
ReconnectFire(id) ==
  /\ id \in timers
  /\ attempts < MaxAttempts
  /\ Commit(reconnectTimerFired([Cur EXCEPT !.timers = @ \ {id}]),
            "reconnect")

\* Transport t is established.
TransportOpen(t) ==
  /\ t \in DOMAIN transports
  /\ transports[t].readyState = "connecting"
  /\ Commit(onopen([Cur EXCEPT !.transports[t].readyState = "open"]), "open")

\* Transport t delivers frame n.
TransportMessage(t, n) ==
  /\ t \in DOMAIN transports
  /\ transports[t].readyState = "open"
  /\ Commit(handleMessage(Note(Cur, EffRecv(t, n)), n), "message")

\* Transport t fails: the runtime reports the error, the close follows.
TransportError(t) ==
  /\ t \in DOMAIN transports
  /\ transports[t].readyState \in {"connecting", "open", "closing"}
  /\ Commit(onerror([Cur EXCEPT !.transports[t].readyState = "closed",
                                !.transports[t].closeDue = TRUE]), "error")

\* Transport t reports its close: after a failure, after the client's
\* close(), or because the relay closed an open connection.
TransportClose(t) ==
  /\ t \in DOMAIN transports
  /\ \/ transports[t].closeDue
     \/ transports[t].readyState \in {"open", "closing"}
  /\ LET code == IF transports[t].readyState = "closing" THEN 1000 ELSE 1006
     IN Commit(onclose([Cur EXCEPT !.transports[t].readyState = "closed",
                                   !.transports[t].closeDue = FALSE], code),
               "close")

\* The application calls MessageParser.parseMessage(f) itself.
ParseMessage(f) ==
  Commit(NoteParse(Cur, f, parseMessage(f)), "parseMessage")

\* The caller subscribes to / unsubscribes from one more topic.
SubscribeToChannel(ch) ==
  Commit(subscribeToChannel(Cur, ch), "subscribeToChannel")

UnsubscribeFromChannel(ch) ==
  Commit(unsubscribeFromChannel(Cur, ch), "unsubscribeFromChannel")

\* The caller adds a topic name / a raw envelope, or clears both lists.
AddCustomSubscriptions(ch) ==
  /\ Len(customSubscriptions) < MaxCustom
  /\ Commit(addCustomSubscriptions(Cur, << ch >>), "addCustomSubscriptions")

AddSubscriptionMessages(m) ==
  /\ Len(subscriptionMessages) < MaxCustom
  /\ Commit(addSubscriptionMessages(Cur, << m >>), "addSubscriptionMessages")

ClearCustomSubscriptions ==
  /\ customSubscriptions # << >> \/ subscriptionMessages # << >>
  /\ Commit(clearCustomSubscriptions(Cur), "clearCustomSubscriptions")

----------------------------------------------------------------------------
\* Specifications.

\* The connection lifecycle.
Next ==
  \/ \E name \in ChannelNames : Connect(name)
  \/ Disconnect
  \/ \E i \in DOMAIN fetches : FetchOk(i)
  \/ \E i \in DOMAIN fetches : FetchFail(i)
  \/ \E p \in DOMAIN promises : ConnectTimeout(p)
  \/ \E id \in timers : ReconnectFire(id)
  \/ \E t \in DOMAIN transports : TransportOpen(t)
  \/ \E t \in DOMAIN transports : TransportError(t)
  \/ \E t \in DOMAIN transports : TransportClose(t)

Spec == Init /\ [][Next]_vars

\* Inbound frames, under every choice of filteredEvents.
InitMsg == InitWith({TRUE}, FilterChoices)

NextMsg ==
  \/ Connect(WatchedChannel)
  \/ Disconnect
  \/ \E i \in DOMAIN fetches : FetchOk(i)
  \/ \E t \in DOMAIN transports : TransportOpen(t)
  \/ \E t \in DOMAIN transports : \E n \in DOMAIN Frames : TransportMessage(t, n)

SpecMsg == InitMsg /\ [][NextMsg]_vars

\* Subscriptions: the handshake and the caller's operations on topics.
NextSub ==
  \/ Connect(WatchedChannel)
  \/ Disconnect
  \/ \E i \in DOMAIN fetches : FetchOk(i)
  \/ \E t \in DOMAIN transports : TransportOpen(t)
  \/ \E ch \in CallerTopics : SubscribeToChannel(ch)
  \/ \E ch \in CallerTopics : AddCustomSubscriptions(ch)
  \/ \E m \in CallerEnvelopes : AddSubscriptionMessages(m)

InitSub == InitWith({TRUE}, { {} })

SpecSub == InitSub /\ [][NextSub]_vars

\* The parser on its own, applied to every kind of input string.
NextParse == \E f \in ParseInputs : ParseMessage(f)

SpecParse == InitSub /\ [][NextParse]_vars

\* Reconnection when the platform and the relay answer: metadata fetches
\* succeed and transports open, the relay may close an open transport while
\* a further attempt is within the bound, and the runtime delivers every
\* pending callback (the fetch result, the open, the reconnect timer).
RelayClose(t) ==
  /\ attempts < MaxAttempts
  /\ TransportClose(t)

NextLive ==
  \/ Connect(WatchedChannel)
  \/ Disconnect
  \/ \E i \in DOMAIN fetches : FetchOk(i)
  \/ \E id \in timers : ReconnectFire(id)
  \/ \E t \in DOMAIN transports : TransportOpen(t)
  \/ \E t \in DOMAIN transports : RelayClose(t)

SpecLive ==
  /\ InitSub
  /\ [][NextLive]_vars
  /\ WF_vars(\E i \in DOMAIN fetches : FetchOk(i))
  /\ WF_vars(\E id \in timers : ReconnectFire(id))
  /\ WF_vars(\E t \in DOMAIN transports : TransportOpen(t))

----------------------------------------------------------------------------
\* Reading the trace of the handler that ran last.

Has(k, a) == \E j \in DOMAIN trace : trace[j].k = k /\ trace[j].a = a
HasKind(k) == \E j \in DOMAIN trace : trace[j].k = k
HasNext(k, a) == \E j \in DOMAIN trace' : trace'[j].k = k /\ trace'[j].a = a
HasKindNext(k) == \E j \in DOMAIN trace' : trace'[j].k = k

DomainKindSet == { DomainKinds[j] : j \in DOMAIN DomainKinds }

\* The domain events the last handler emitted.
DomainEmits == { j \in DOMAIN trace :
                   trace[j].k = "emit" /\ trace[j].a \in DomainKindSet }

\* The subscribe frames the last handler sent for topic ch.
SubscribeSends(ch) ==
  { j \in DOMAIN trace : trace[j].k = "send" /\ trace[j].c = ch
                         /\ trace[j].a = "pusher:subscribe" }

AllTopics ==
  CallerTopics \cup { AutoTopics(ChatroomOf(n))[j] :
                        n \in ChannelNames, j \in 1..6 }

----------------------------------------------------------------------------
\* C1: connect() called while the state is 'connecting' or 'connected' is a
\* no-op: it starts no metadata fetch, creates no transport, and leaves the
\* state, the channel name, the manual-disconnect flag, the stored promise
\* callbacks and every other field of the manager unchanged.
C1_DoubleConnectNoOp ==
  [][ (connectionState \in {"connected", "connecting"} /\ lastOp' = "connect")
        => /\ UNCHANGED managerVars
           /\ UNCHANGED envVars
           /\ ~HasKindNext("fetch") /\ ~HasKindNext("newws") ]_vars

\* connect() was called while an attempt or a connection was in place.
C1_Witness ==
  /\ lastOp = "connect"
  /\ Has("log", "Already connected or connecting")
  /\ connectionState \in {"connected", "connecting"}
  /\ channelName = WatchedChannel
  /\ attempts >= 1

\* C2: at most one reconnect timer is pending, and it is the one the manager
\* holds in reconnectTimer: scheduling a reconnect while one is pending
\* cancels the earlier timer.
C2_OneReconnectTimer ==
  /\ Cardinality(timers) <= 1
  /\ timers # {} => timers = {reconnectTimer}

\* A close, error, failure or timeout replaced a timer that was pending.
C2_Witness ==
  /\ lastOp \in {"close", "timeout", "fetchFail"}
  /\ HasKind("cancelled")
  /\ Has("state", "reconnecting")
  /\ Cardinality(timers) = 1

\* C3: disconnect() called while a reconnect timer is pending cancels it: no
\* reconnect timer is pending afterwards, so none can fire and start an
\* attempt, and the manager holds no timer.
C3_DisconnectCancelsReconnect ==
  [][ (timers # {} /\ lastOp' = "disconnect")
        => /\ timers' = {}
           /\ reconnectTimer' = 0
           /\ ~HasKindNext("fetch") /\ ~HasKindNext("newws") ]_vars

C3_Witness ==
  /\ lastOp = "disconnect"
  /\ HasKind("cancelled")
  /\ timers = {}

\* C4 (as claimed): a metadata result that arrives after disconnect() is
\* discarded: it creates no transport, and no handshake makes the manager
\* 'connected' while the manual-disconnect flag is set.
C4_LateFetchDiscarded ==
  isManualDisconnect =>
    /\ lastOp = "fetchOk" => ~HasKind("newws")
    /\ lastOp = "open" => ~HasKind("send") /\ ~Has("emit", "ready")
    /\ connectionState # "connected"

\* C5 (as claimed): the resolve and reject callbacks of a connect() promise
\* are called at most once in total, and a settled promise is no longer held
\* in connectionResolver / connectionRejector.
C5_SettledOnce ==
  \A p \in DOMAIN promises :
    /\ promises[p].calls <= 1
    /\ promises[p].status # "pending"
         => connectionResolver # p /\ connectionRejector # p

\* C6: when the timeout of a connect() call fires while the state is not
\* 'connected', the handler sets the state to 'error', emits 'error', and the
\* promise of that call ends rejected (the state is left 'error', or
\* 'reconnecting' when a reconnect is scheduled); and every handler that
\* emits 'ready' or 'error' cancels the pending timeout timers.
C6_TimeoutIsConnectionError ==
  [][ /\ (lastOp' = "timeout" /\ connectionState # "connected")
          => /\ Len(trace') >= 3
             /\ trace'[1] = EffState("error")
             /\ trace'[2] = EffEmit("error", 0)
             /\ \E p \in DOMAIN promises :
                  /\ promises[p].timeout
                  /\ trace'[Len(trace')] = EffReject(p)
                  /\ promises'[p].status = "rejected"
             /\ connectionState' =
                  IF options.autoReconnect /\ ~isManualDisconnect
                    THEN "reconnecting" ELSE "error"
      /\ (HasNext("emit", "ready") \/ HasNext("emit", "error"))
          => \A p \in DOMAIN promises : ~promises'[p].timeout ]_vars

\* The timeout fired during an attempt and rejected the pending promise.
C6_Witness ==
  /\ lastOp = "timeout"
  /\ Has("emit", "error")
  /\ \E p \in DOMAIN promises :
       promises[p].status = "rejected" /\ promises[p].calls >= 1
                                       /\ trace[Len(trace)] = EffReject(p)

\* C7 (as claimed): with a non-empty filteredEvents, every domain event
\* emitted for an inbound frame has its kind in filteredEvents.
C7_OnlyAllowedKinds ==
  (lastOp = "message" /\ options.filteredEvents # {})
    => \A j \in DomainEmits : trace[j].a \in options.filteredEvents

\* C8: one subscription handshake sends at most one subscribe frame per
\* topic name, whichever list the name comes from and however often it
\* occurs there.
C8_HandshakeSendsOncePerTopic ==
  lastOp = "open" =>
    \A j, k \in DOMAIN trace :
      (trace[j].k = "send" /\ trace[k].k = "send" /\ trace[j].c = trace[k].c)
        => j = k

\* A handshake that sent frames and skipped a repeated topic.
C8_Witness ==
  /\ lastOp = "open"
  /\ HasKind("send")
  /\ \/ Has("log", "Skipping duplicate subscription")
     \/ Has("log", "Skipping duplicate subscription message")
  /\ \E ch \in CallerTopics : Cardinality(SubscribeSends(ch)) = 1

\* C9 (as claimed): subscribeToChannel for a topic the relay already holds a
\* subscription for on the current transport sends no further subscribe frame.
C9_SubscribeIdempotent ==
  [][ \A ch \in AllTopics :
        (lastOp' = "subscribeToChannel" /\ ws # 0 /\ ch \in transports[ws].sent)
          => \A j \in DOMAIN trace' :
               ~(trace'[j].k = "send" /\ trace'[j].c = ch) ]_vars

\* C10: the handler of an inbound frame emits 'rawMessage' with that frame
\* exactly once, as its first effect, whatever becomes of the frame, and so
\* before any domain event of the frame.
C10_RawMessageFirst ==
  lastOp = "message" =>
    /\ Len(trace) >= 2
    /\ trace[1].k = "recv"
    /\ trace[2] = EffEmit("rawMessage", trace[1].n)
    /\ \A j \in DOMAIN trace :
         (trace[j].k = "emit" /\ trace[j].a = "rawMessage") => j = 2
    /\ \A j \in DomainEmits : j > 2

\* A system frame was swallowed after its rawMessage.
C10_Witness ==
  /\ lastOp = "message"
  /\ Has("log", "Ignoring Pusher system event")
  /\ Has("emit", "rawMessage")
  /\ DomainEmits = {}

\* C11 (as claimed): a transport error reported while the state is
\* 'connecting' or 'connected' sets the state to 'error', emits 'error',
\* rejects the outstanding connect promise, and leaves a reconnect scheduled
\* (state 'reconnecting') exactly when autoReconnect is enabled and the
\* manual-disconnect flag is not set.
C11_TransportErrorSetsError ==
  [][ (lastOp' = "error" /\ connectionState \in {"connecting", "connected"})
        => /\ HasNext("state", "error")
           /\ HasNext("emit", "error")
           /\ connectionRejector # 0
                => promises'[connectionRejector].status = "rejected"
           /\ connectionState' =
                IF options.autoReconnect /\ ~isManualDisconnect
                  THEN "reconnecting" ELSE "error" ]_vars

\* C12: when a transport reports its close (while the state is 'connected',
\* and in every other state too), the handler first sets the state to
\* 'disconnected', then emits exactly one 'disconnect' event carrying the
\* close code, rejects the connect promise that is still stored and clears
\* the stored callbacks; it schedules a reconnect (one pending timer, state
\* 'reconnecting') exactly when autoReconnect is enabled and the
\* manual-disconnect flag is not set, and otherwise leaves the state
\* 'disconnected' and the timers as they were.
C12_CloseHandling ==
  [][ lastOp' = "close" =>
        /\ Len(trace') >= 2
        /\ trace'[1] = EffState("disconnected")
        /\ \E t \in DOMAIN transports :
             /\ transports'[t] # transports[t]
             /\ trace'[2] = EffEmit("disconnect",
                               IF transports[t].readyState = "closing"
                                 THEN 1000 ELSE 1006)
        /\ \A j \in DOMAIN trace' :
             (trace'[j].k = "emit" /\ trace'[j].a = "disconnect") => j = 2
        /\ connectionRejector # 0
             => /\ trace'[3] = EffReject(connectionRejector)
                /\ promises'[connectionRejector].status = "rejected"
        /\ connectionResolver' = 0 /\ connectionRejector' = 0
        /\ IF options.autoReconnect /\ ~isManualDisconnect
             THEN /\ connectionState' = "reconnecting"
                  /\ reconnectTimer' # 0
                  /\ timers' = {reconnectTimer'}
                  /\ trace'[Len(trace')] = EffState("reconnecting")
             ELSE /\ connectionState' = "disconnected"
                  /\ timers' = timers
                  /\ reconnectTimer' = reconnectTimer
                  /\ ~HasNext("state", "reconnecting") ]_vars

\* The only transport of the only attempt completed its handshake (the state
\* was 'connected' from then on) and then reported its close: a reconnect is
\* scheduled.
C12_Witness ==
  /\ lastOp = "close"
  /\ attempts = 1 /\ Len(transports) = 1 /\ ws = 1
  /\ transports[1].sent # {}
  /\ Has("emit", "disconnect")
  /\ connectionState = "reconnecting"
  /\ timers # {}

\* C13: from any state, when disconnect() returns the state is
\* 'disconnected', the manual-disconnect flag is set, no reconnect timer is
\* pending or held, the transport the manager held (if any) was asked to
\* close with code 1000 and is no longer open or opening, and the transport
\* reference is null; a second disconnect() right after the first changes no
\* field of the manager and nothing in its environment.
C13_DisconnectPostcondition ==
  [][ lastOp' = "disconnect" =>
        /\ connectionState' = "disconnected"
        /\ isManualDisconnect'
        /\ timers' = {} /\ reconnectTimer' = 0
        /\ ws' = 0
        /\ ws # 0 => /\ HasNext("close", "")
                     /\ \E j \in DOMAIN trace' : trace'[j] = EffClose(ws)
                     /\ transports'[ws].readyState \in {"closing", "closed"}
        /\ ws = 0 => ~HasKindNext("close") /\ transports' = transports
        /\ lastOp = "disconnect"
             => UNCHANGED managerVars /\ UNCHANGED envVars ]_vars

\* disconnect() was called while a transport was held and open (or opening):
\* the transport is closing and the reference is gone.
C13_Witness ==
  /\ lastOp = "disconnect"
  /\ HasKind("close")
  /\ \E t \in DOMAIN transports : transports[t].readyState = "closing"
  /\ ws = 0 /\ isManualDisconnect /\ connectionState = "disconnected"

\* Positions in the trace of the handler that ran next.
StateIdxNext == { j \in DOMAIN trace' : trace'[j].k = "state" }
ReadyIdxNext ==
  { j \in DOMAIN trace' : trace'[j].k = "emit" /\ trace'[j].a = "ready" }
ReadyTopicIdxNext == { j \in DOMAIN trace' : trace'[j].k = "ready-topic" }

LastFrame == Frames[trace[1].n]
IsSystemFrame(f) == f.text = "object" /\ f.hasEvent /\ IsSystemEvent(f.event)
SendIdx == { j \in DOMAIN trace : trace[j].k = "send" }

\* C15: handling an inbound frame whose event name starts with 'pusher:' or
\* 'pusher_internal:' emits no domain event, whatever filteredEvents is; a
\* 'pusher:pong' frame handled while the manager's transport is open causes
\* exactly one outbound frame, a 'pusher:ping' on that transport; a pong
\* handled while the manager's transport is not open, and every other
\* reserved-prefix frame, cause no outbound frame.
C15_SystemFrames ==
  (lastOp = "message" /\ IsSystemFrame(LastFrame)) =>
    /\ DomainEmits = {}
    /\ IF /\ LastFrame.event = << PUSHER, "pong" >>
          /\ ws # 0 /\ transports[ws].readyState = "open"
         THEN /\ Cardinality(SendIdx) = 1
              /\ \A j \in SendIdx :
                   trace[j] = EffSend("pusher:ping", ws, NoTopic)
         ELSE SendIdx = {}

\* A pong arrived under a non-empty filteredEvents and was answered by a ping.
C15_Witness ==
  /\ lastOp = "message"
  /\ LastFrame.event = << PUSHER, "pong" >>
  /\ options.filteredEvents # {}
  /\ Has("send", "pusher:ping")
  /\ Has("emit", "pingSent")
  /\ DomainEmits = {}

\* C16: for each of the ten kinds that have a legacy bare wire name, a frame
\* with the bare name and a frame with the namespaced name, both carrying
\* the same full payload, parse to the same kind and the same transformed
\* payload; the result carries the legacy annotation, holding the original
\* wire name, exactly when the frame used the bare name; the handler emits
\* one domain event, named by the kind, in both cases; and without
\* filteredEvents every such frame reaches the parser.
C16_LegacyAlias ==
  lastOp = "message" =>
    /\ parsed # << >> =>
         LET f == parsed[1].input
             r == parsed[1].output
         IN /\ \A k \in Namespaced :
                 ( /\ f.text = "object" /\ f.hasEvent /\ f.eventIsString
                   /\ f.event \in {LegacyName(k), KickEvent(k)}
                   /\ f.data = "json" /\ f.payload = "full" )
                 => /\ r.ok /\ r.type = k
                    /\ r.data = Transformed(k, "full")
                    /\ r.isLegacy = (f.event = LegacyName(k))
                    /\ r.legacyType =
                         IF f.event = LegacyName(k) THEN f.event ELSE << >>
                    /\ Cardinality(DomainEmits) = 1
                    /\ \A j \in DomainEmits : trace[j].a = k
            /\ r.legacyType # << >>
                 => \E k \in Namespaced : f.event = LegacyName(k)
    /\ ( /\ options.filteredEvents = {}
         /\ LastFrame.text = "object" /\ LastFrame.data = "json"
         /\ \E k \in Namespaced :
              LastFrame.event \in {LegacyName(k), KickEvent(k)} )
       => parsed # << >>

\* A frame with the bare name of the ban event was parsed and dispatched on
\* the domain kind, with the annotation.
C16_Witness ==
  /\ lastOp = "message"
  /\ parsed # << >>
  /\ parsed[1].input.event = LegacyName("UserBanned")
  /\ parsed[1].output.type = "UserBanned"
  /\ parsed[1].output.legacyType = << "UserBannedEvent" >>
  /\ Has("emit", "UserBanned")

\* C17: parseMessage never raises: for every input string (empty, blank, not
\* JSON, JSON that is not an object, an envelope whose event or data is
\* missing, empty or not a string, data that is not JSON, a payload without
\* the nested fields a transform reads) it returns null or an envelope whose
\* type is one of the twelve domain kinds and whose payload has the shape of
\* that kind.
C17_ParseTotal ==
  lastOp = "parseMessage" =>
    /\ Len(parsed) = 1
    /\ parsed[1].input \in ParseInputs
    /\ LET r == parsed[1].output
       IN /\ ~r.raised
          /\ r.ok => /\ r.type \in DomainKindSet
                     /\ r.data.shape = r.type
          /\ ~r.ok => r = Null

\* A chat message whose payload has no sender: the transform raised inside
\* the try block and parseMessage returned null.
C17_Witness ==
  /\ lastOp = "parseMessage"
  /\ parsed[1].input =
       Frame("object", TRUE, KickEvent("ChatMessage"), "json", "bare")
  /\ parseMessageTry(parsed[1].input).raised
  /\ parsed[1].output = Null

\* The fetches left when fetch i settles.
FetchesWithout(i) ==
  [j \in 1..(Len(fetches) - 1) |->
     IF j < i THEN fetches[j] ELSE fetches[j + 1]]
ErrorEmitIdxNext ==
  { j \in DOMAIN trace' : trace'[j].k = "emit" /\ trace'[j].a = "error" }

\* C18 (as claimed): when the metadata fetch of an attempt fails, no
\* transport is created, the state is set to 'error', exactly one 'error'
\* event is emitted, the promise of the connect() call that started the
\* attempt is rejected, and a reconnect is scheduled (state 'reconnecting',
\* one pending timer) exactly when autoReconnect is enabled and the
\* manual-disconnect flag is not set.
C18_FetchFailure ==
  [][ lastOp' = "fetchFail" =>
        /\ ~HasKindNext("newws")
        /\ transports' = transports /\ ws' = ws
        /\ trace'[1] = EffState("error")
        /\ Cardinality(ErrorEmitIdxNext) = 1
        /\ \E i \in DOMAIN fetches :
             /\ fetches' = FetchesWithout(i)
             /\ fetches[i].origin # 0
                  => promises'[fetches[i].origin].status = "rejected"
        /\ IF options.autoReconnect /\ ~isManualDisconnect
             THEN /\ connectionState' = "reconnecting"
                  /\ reconnectTimer' # 0 /\ timers' = {reconnectTimer'}
             ELSE /\ connectionState' = "error"
                  /\ timers' = timers /\ reconnectTimer' = reconnectTimer ]_vars

\* C19 (as claimed): with autoReconnect disabled no reconnect timer is ever
\* scheduled and the state is never 'reconnecting'; a transport close leaves
\* the state 'disconnected' and a connection error leaves it 'error', and
\* the next event that is not a connect() or disconnect() call of the caller
\* does not change that state.
C19_NoAutoReconnect ==
  [][ ~options.autoReconnect =>
        /\ timers' = {} /\ reconnectTimer' = 0
        /\ connectionState' # "reconnecting"
        /\ ~HasNext("state", "reconnecting")
        /\ lastOp' = "close" => connectionState' = "disconnected"
        /\ lastOp' \in {"fetchFail", "timeout"} /\ HasNext("emit", "error")
             => connectionState' = "error"
        /\ ( /\ lastOp \in {"close", "fetchFail", "timeout"}
             /\ connectionState \in {"disconnected", "error"}
             /\ lastOp' \notin {"connect", "disconnect"} )
           => connectionState' = connectionState ]_vars

\* C20: a transport close under autoReconnect and without the
\* manual-disconnect flag leaves the state 'reconnecting' with a timer
\* pending; when the reconnect timer fires the connection sequence runs
\* again: the state becomes 'connecting' and the metadata of the stored
\* channel name is fetched anew, and the metadata, once there, gives a new
\* transport that becomes the current one; and when fetches succeed,
\* transports open and pending callbacks are delivered, every state
\* 'reconnecting' is followed by a transport open that sets the state to
\* 'connected' and emits 'ready', unless the caller disconnects first.
C20_ReconnectRunsAgain ==
  /\ [][ /\ (lastOp' = "close" /\ options.autoReconnect /\ ~isManualDisconnect)
             => /\ connectionState' = "reconnecting"
                /\ reconnectTimer' \in timers'
         /\ lastOp' = "reconnect"
             => /\ reconnectTimer \in timers /\ reconnectTimer \notin timers'
                /\ trace' = << EffLog("Attempting to reconnect..."),
                               EffState("connecting"),
                               EffFetch(channelName) >>
                /\ connectionState' = "connecting"
                /\ Len(fetches') = Len(fetches) + 1
                /\ fetches'[Len(fetches')].name = channelName
         /\ lastOp' = "fetchOk"
             => /\ Len(transports') = Len(transports) + 1
                /\ ws' = Len(transports')
                /\ transports'[ws'].readyState = "connecting"
                /\ trace' = << EffNewWs(ws') >> ]_vars
  /\ (connectionState = "reconnecting")
       ~> ( \/ isManualDisconnect
            \/ /\ connectionState = "connected"
               /\ lastOp = "open"
               /\ Has("emit", "ready") )

\* The relay closed the first transport, the reconnect timer started the
\* second attempt (no second connect() call was made), and the second
\* transport opened: 'connected' and 'ready' again.
C20_Witness ==
  /\ lastOp = "open"
  /\ attempts = 2 /\ Len(promises) = 1
  /\ Len(transports) = 2 /\ transports[1].readyState = "closed" /\ ws = 2
  /\ ~isManualDisconnect
  /\ connectionState = "connected"
  /\ Has("emit", "ready")

----------------------------------------------------------------------------
\* The raw envelope that names a topic.
NamedEnvelope == Envelope("pusher:subscribe", TRUE, Topic("my-topic", 0, ""))

\* The caller's lists across disconnect, reconnect and clearing: the
\* handshake together with the relay's close, the reconnect timer and
\* clearCustomSubscriptions.
NextLists ==
  \/ Connect(WatchedChannel)
  \/ Disconnect
  \/ \E i \in DOMAIN fetches : FetchOk(i)
  \/ \E id \in timers : ReconnectFire(id)
  \/ \E t \in DOMAIN transports : TransportOpen(t)
  \/ \E t \in DOMAIN transports : RelayClose(t)
  \/ \E ch \in CallerTopics : AddCustomSubscriptions(ch)
  \/ AddSubscriptionMessages(NamedEnvelope)
  \/ ClearCustomSubscriptions

SpecLists == InitSub /\ [][NextLists]_vars

\* The topics the caller's two lists name.
ListedTopics ==
  { customSubscriptions[j] : j \in DOMAIN customSubscriptions } \cup
  { subscriptionMessages[j].channel :
      j \in { k \in DOMAIN subscriptionMessages :
                subscriptionMessages[k].hasChannel } }

\* The topics the next handler sent a frame for.
SentTopicsNext ==
  { trace'[j].c : j \in { k \in DOMAIN trace' : trace'[k].k = "send" } }

ListOps ==
  {"addCustomSubscriptions", "addSubscriptionMessages",
   "clearCustomSubscriptions"}

\* C21: the caller's topic names and raw envelopes survive disconnect and
\* reconnect: only the caller's own add and clear calls and the handshake
\* touch the two lists, the handshake removes nothing from them and sends a
\* frame for every topic they name, and after clearCustomSubscriptions both
\* lists are empty.
C21_ListsSurvive ==
  [][ /\ lastOp' \notin ListOps \cup {"open"} =>
           /\ customSubscriptions' = customSubscriptions
           /\ subscriptionMessages' = subscriptionMessages
      /\ lastOp' = "open" /\ HasNext("emit", "ready") =>
           /\ Len(customSubscriptions') >= Len(customSubscriptions)
           /\ SubSeq(customSubscriptions', 1, Len(customSubscriptions))
                = customSubscriptions
           /\ subscriptionMessages' = subscriptionMessages
           /\ ListedTopics \subseteq SentTopicsNext
      /\ lastOp' = "clearCustomSubscriptions" =>
           /\ customSubscriptions' = << >>
           /\ subscriptionMessages' = << >>
    ]_vars

----------------------------------------------------------------------------
\* The application's handlers on a connection that receives frames.

\* The events the application listens to.
ListenEvents == {"rawMessage", "ready"}

\* The application calls on(ev, h) / once(ev, h) / off(ev, h).
On(ev, raises) ==
  /\ Len(listeners) < MaxHandlers
  /\ Commit(on(Cur, ev, raises), "on")

Once(ev, raises) ==
  /\ Len(listeners) < MaxHandlers
  /\ Commit(once(Cur, ev, raises), "once")

Off(i) ==
  /\ i \in DOMAIN listeners
  /\ Commit(off(Cur, i), "off")

\* The frames delivered: a chat message, the relay's pong, and a text that
\* is not JSON.
BusFrames ==
  { n \in DOMAIN Frames :
      Frames[n] \in
        { Frame("object", TRUE, KickEvent("ChatMessage"), "json", "full"),
          Frame("object", TRUE, << PUSHER, "pong" >>, "json", "full"),
          Frame("garbage", FALSE, << >>, "absent", "full") } }

BusMessage(t, n) ==
  /\ \A i \in DOMAIN listeners : listeners[i].calls < MaxCalls
  /\ TransportMessage(t, n)

NextBus ==
  \/ Connect(WatchedChannel)
  \/ \E i \in DOMAIN fetches : FetchOk(i)
  \/ \E t \in DOMAIN transports : TransportOpen(t)
  \/ \E t \in DOMAIN transports : \E n \in BusFrames : BusMessage(t, n)
  \/ \E ev \in ListenEvents : \E raises \in BOOLEAN : On(ev, raises)
  \/ \E ev \in ListenEvents : \E raises \in BOOLEAN : Once(ev, raises)
  \/ \E i \in DOMAIN listeners : Off(i)

SpecBus == InitSub /\ [][NextBus]_vars

\* The registrations of ev that are in place.
ActiveOf(ev) ==
  { i \in DOMAIN listeners : listeners[i].ev = ev /\ listeners[i].active }

\* The registrations the next handler called for ev.
CalledNext(ev) ==
  { trace'[j].n :
      j \in { k \in DOMAIN trace' : trace'[k].k = "call" /\ trace'[k].a = ev } }

\* The frame the next handler was handed.
FrameNext == Frames[trace'[1].n]

\* C22: when a handler raises during emit, the fault is caught and logged,
\* emit returns normally and every handler registered for the event is still
\* called, those after the raising one included; the handler that emitted
\* goes on: a frame leaves the connection state alone and a chat message is
\* still emitted after 'rawMessage', the relay's pong is still answered, and
\* the handshake still ends in 'connected' with the promise resolved.
C22_RaisingHandlerIsolated ==
  [][ /\ ~HasKindNext("throw")
      /\ \A j \in DOMAIN trace' :
           (trace'[j].k = "call" /\ listeners'[trace'[j].n].raises) =>
             /\ j < Len(trace')
             /\ trace'[j + 1] = EffCaught(trace'[j].a, trace'[j].n)
      /\ \A ev \in ListenEvents :
           HasNext("emit", ev) => CalledNext(ev) = ActiveOf(ev)
      /\ lastOp' = "message" =>
           /\ connectionState' = connectionState
           /\ HasNext("emit", "rawMessage")
           /\ FrameNext.event = KickEvent("ChatMessage") =>
                HasNext("emit", "ChatMessage")
           /\ (FrameNext.event = << PUSHER, "pong" >> /\ isConnected(Cur)) =>
                HasNext("send", "pusher:ping")
      /\ lastOp' = "open" =>
           /\ connectionState' = "connected"
           /\ HasNext("emit", "ready")
           /\ connectionResolver # 0 => HasKindNext("resolve")
    ]_vars

\* A frame was handled with two handlers on 'rawMessage': the first raised,
\* the second was called after it, and the chat message was emitted.
C22_Witness ==
  /\ lastOp = "message"
  /\ \E j, k \in DOMAIN trace :
       /\ j < k
       /\ trace[j].k = "caught" /\ trace[j].a = "rawMessage"
       /\ trace[k].k = "call" /\ trace[k].a = "rawMessage"
  /\ Has("emit", "ChatMessage")

\* The registrations of ev that are in place, in registration order.
ActiveSeq(ev) ==
  SelectSeq([i \in 1..Len(listeners) |-> i],
            LAMBDA i : listeners[i].ev = ev /\ listeners[i].active)

\* The registrations the next handler called for ev, in the order of the
\* calls.
CallSeqNext(ev) ==
  LET q == SelectSeq(trace', LAMBDA e : e.k = "call" /\ e.a = ev)
  IN [j \in 1..Len(q) |-> q[j].n]

\* C23: a handler registered with once() is called at most once over all
\* emits and is no longer registered after its call; every emit calls the
\* handlers registered for the event, on() and once() alike, in registration
\* order, and a handler registered with on() stays registered until off().
C23_OnceAtMostOnce ==
  /\ [](\A i \in DOMAIN listeners :
          listeners[i].once =>
            /\ listeners[i].calls <= 1
            /\ listeners[i].calls = 1 => ~listeners[i].active)
  /\ [][ /\ \A ev \in ListenEvents :
              HasNext("emit", ev) => CallSeqNext(ev) = ActiveSeq(ev)
         /\ \A i \in DOMAIN listeners :
              (~listeners[i].once /\ listeners[i].active /\ lastOp' # "off")
                => listeners'[i].active
       ]_vars

\* A once() handler and an on() handler of 'rawMessage' were both called for
\* a first frame; the second frame called the on() handler alone.
C23_Witness ==
  /\ lastOp = "message"
  /\ \E i, j \in DOMAIN listeners :
       /\ listeners[i].ev = "rawMessage" /\ listeners[j].ev = "rawMessage"
       /\ listeners[i].once /\ listeners[i].calls = 1
       /\ ~listeners[j].once /\ listeners[j].calls = 2
       /\ i < j
       /\ Has("call", "rawMessage")
       /\ \A k \in DOMAIN trace : trace[k].k = "call" => trace[k].n = j

----------------------------------------------------------------------------
\* Sends by the caller in every state of the connection.

\* The caller calls sendPing().
SendPing ==
  Commit(sendPing(Cur), "sendPing")

NextSend ==
  \/ Connect(WatchedChannel)
  \/ Disconnect
  \/ \E i \in DOMAIN fetches : FetchOk(i)
  \/ \E t \in DOMAIN transports : TransportOpen(t)
  \/ \E t \in DOMAIN transports : TransportClose(t)
  \/ \E ch \in CallerTopics : SubscribeToChannel(ch)
  \/ \E ch \in CallerTopics : UnsubscribeFromChannel(ch)
  \/ SendPing

SpecSend == InitSub /\ [][NextSend]_vars

\* The current transport is there and open.
TransportIsOpen == ws # 0 /\ transports[ws].readyState = "open"

\* C24: subscribeToChannel and unsubscribeFromChannel called while the
\* manager is not connected, and sendPing called while the transport is
\* absent or not open, send nothing and change nothing; and no handler ever
\* sends a frame (a subscribe frame of the handshake included) on a transport
\* that is absent or not open, so no send raises.
C24_SendsNeedOpenTransport ==
  [][ /\ ( \/ /\ lastOp' \in {"subscribeToChannel", "unsubscribeFromChannel"}
              /\ ~isConnected(Cur)
           \/ /\ lastOp' = "sendPing"
              /\ ~TransportIsOpen )
         => /\ ~HasKindNext("send")
            /\ ~HasKindNext("emit")
            /\ UNCHANGED <<managerVars, envVars, listeners>>
      /\ \A j \in DOMAIN trace' :
           trace'[j].k = "send" =>
             /\ trace'[j].n # 0
             /\ trace'[j].n = ws'
             /\ transports'[trace'[j].n].readyState = "open"
    ]_vars

\* sendPing was called while the state was 'connected' and the current
\* transport still opening: nothing was sent.
C24_Witness ==
  /\ lastOp = "sendPing"
  /\ connectionState = "connected"
  /\ ws # 0 /\ transports[ws].readyState = "connecting"
  /\ ~HasKind("send")
  /\ Has("log", "Cannot send ping: WebSocket not open")

----------------------------------------------------------------------------
\* C25: a newly constructed manager is in state 'disconnected', with
\* isConnected() false, the empty channel name and channel id 0; and in every
\* reachable state isConnected() is true only if the state is 'connected' and
\* the current transport is open.
C25_InitialAndIsConnected ==
  /\ lastOp = "new" =>
       /\ connectionState = "disconnected"
       /\ ~isConnected(Cur)
       /\ channelName = ""
       /\ channelId = 0
  /\ isConnected(Cur) =>
       /\ connectionState = "connected"
       /\ ws # 0
       /\ transports[ws].readyState = "open"

\* The handshake of the current transport ended: isConnected() is true.
C25_Witness ==
  /\ lastOp = "open"
  /\ isConnected(Cur)
  /\ channelName = WatchedChannel
  /\ channelId = ChatroomOf(WatchedChannel)

----------------------------------------------------------------------------
\* The placeholders of a content c: opener at i, colon at m, closing bracket
\* at j, one or more digits between i and m, one or more word characters
\* between m and j.
Placeholders(c) ==
  { o \in (DOMAIN c) \X (DOMAIN c) \X (DOMAIN c) :
      /\ c[o[1]] = "[emote:" /\ c[o[2]] = ":" /\ c[o[3]] = "]"
      /\ o[1] + 1 < o[2] /\ o[2] + 1 < o[3]
      /\ \A k \in (o[1] + 1)..(o[2] - 1) : c[k] \in Digits
      /\ \A k \in (o[2] + 1)..(o[3] - 1) : c[k] \in WordChars }

\* c with every placeholder cut down to its word: the characters outside
\* every placeholder and those of the words, in their order.
Rewritten(c) ==
  LET kept == { q \in DOMAIN c :
                  \A o \in Placeholders(c) :
                    \/ q < o[1] \/ q > o[3]
                    \/ (o[2] < q /\ q < o[3]) }
      idx == SelectSeq([q \in 1..Len(c) |-> q], LAMBDA q : q \in kept)
  IN [k \in 1..Len(idx) |-> c[idx[k]]]

\* The content the claim asks for.
CleanContent(content) ==
  IF content.has THEN Rewritten(content.v) ELSE << >>

\* C26: the content of a parsed chat message is the wire content with every
\* placeholder [emote:<digits>:<word>] replaced by <word> and every other
\* character unchanged, and the empty string when the wire content is
\* absent; the message nested in a parsed pinned message has its content
\* rewritten in the same way.
C26_EmotesRewritten ==
  (lastOp = "parseMessage" /\ parsed[1].input.payload = "fields") =>
    LET f == parsed[1].input
        r == parsed[1].output
    IN /\ (f.event = KickEvent("ChatMessage") /\ f.body.sender.has) =>
            /\ r.ok /\ r.type = "ChatMessage"
            /\ r.data.value.content = CleanContent(f.body.content)
       /\ ( /\ f.event = KickEvent("PinnedMessageCreated")
            /\ f.body.message.has /\ f.body.message.v.sender.has ) =>
            /\ r.ok /\ r.type = "PinnedMessageCreated"
            /\ r.data.value.message.content =
                 CleanContent(f.body.message.v.content)

\* A chat message with two placeholders in its content was parsed: both were
\* cut down to their words.
C26_Witness ==
  /\ lastOp = "parseMessage"
  /\ parsed[1].input.payload = "fields"
  /\ parsed[1].input.event = KickEvent("ChatMessage")
  /\ parsed[1].input.body.content =
       Opt(<< "[emote:", "1", "2", ":", "K", "a", "]",
              "[emote:", "1", ":", "K", "2", "]" >>)
  /\ parsed[1].output.ok
  /\ parsed[1].output.data.value.content = << "K", "a", "K", "2" >>

----------------------------------------------------------------------------
\* What the wire payload b of a chat message says about the sender's color,
\* the badges and the chatroom id: has is FALSE when it says nothing (the
\* field or an object on the way to it is absent; an empty color says
\* nothing either).
WireColor(b) ==
  IF /\ b.sender.v.identity.has /\ b.sender.v.identity.v.color.has
     /\ b.sender.v.identity.v.color.v # ""
    THEN b.sender.v.identity.v.color
    ELSE None("")
WireBadges(b) ==
  IF b.sender.v.identity.has /\ b.sender.v.identity.v.badges.has
    THEN b.sender.v.identity.v.badges
    ELSE None(<< >>)
WireChatroomId(b) ==
  IF b.chatroom.has /\ b.chatroom.v.id.has THEN b.chatroom.v.id
  ELSE None(0)

\* C27: every chat payload on the wire that has a sender is parsed into a
\* ChatMessage whose type is 'message', whose sender identity has a color
\* (the one on the wire, '#ffffff' when there is none) and a badges array
\* (the one on the wire, empty when there is none), and whose chatroom has
\* an id (the one on the wire, 0 when there is none).
C27_ChatDefaults ==
  ( /\ lastOp = "parseMessage"
    /\ parsed[1].input.payload = "fields"
    /\ parsed[1].input.event = KickEvent("ChatMessage")
    /\ parsed[1].input.body.sender.has ) =>
    LET b == parsed[1].input.body
        r == parsed[1].output
        v == r.data.value
    IN /\ r.ok /\ r.type = "ChatMessage"
       /\ v.type = "message"
       /\ v.sender.identity.color =
            Opt(IF WireColor(b).has THEN WireColor(b).v ELSE "#ffffff")
       /\ v.sender.identity.badges =
            Opt(IF WireBadges(b).has THEN WireBadges(b).v ELSE << >>)
       /\ v.chatroom.id =
            Opt(IF WireChatroomId(b).has THEN WireChatroomId(b).v ELSE 0)

\* A chat payload with a sender but without identity and chatroom was
\* parsed: the result has the fallback color, no badges and chatroom id 0.
C27_Witness ==
  /\ lastOp = "parseMessage"
  /\ parsed[1].input.payload = "fields"
  /\ parsed[1].input.event = KickEvent("ChatMessage")
  /\ parsed[1].input.body.sender.has
  /\ ~parsed[1].input.body.sender.v.identity.has
  /\ ~parsed[1].input.body.chatroom.has
  /\ parsed[1].output.ok
  /\ parsed[1].output.data.value.sender.identity =
       [color |-> Opt("#ffffff"), badges |-> Opt(<< >>)]
  /\ parsed[1].output.data.value.chatroom = [id |-> Opt(0)]

----------------------------------------------------------------------------
\* A field of a ban payload counts as present when it holds a name: an
\* absent, null or empty field does not.
Present(x) == x.has /\ x.v # ""

\* C28: the username of a parsed ban is the payload's username when that is
\* present, else its banned_username when that is present, else 'unknown';
\* the same for an unban with unbanned_username; the result has the two
\* fields username and type, and type is 'user_banned' / 'user_unbanned'.
C28_BanUsername ==
  ( /\ lastOp = "parseMessage"
    /\ parsed[1].input.payload = "fields"
    /\ parsed[1].input.event \in
         {KickEvent("UserBanned"), KickEvent("UserUnbanned")} ) =>
    LET b == parsed[1].input.body
        r == parsed[1].output
        v == r.data.value
        banned == parsed[1].input.event = KickEvent("UserBanned")
        variant == IF banned THEN b.banned_username ELSE b.unbanned_username
    IN /\ r.ok
       /\ r.type = IF banned THEN "UserBanned" ELSE "UserUnbanned"
       /\ DOMAIN v = {"username", "type"}
       /\ v.type = IF banned THEN "user_banned" ELSE "user_unbanned"
       /\ Present(b.username) => v.username = b.username.v
       /\ (~Present(b.username) /\ Present(variant)) =>
            v.username = variant.v
       /\ (~Present(b.username) /\ ~Present(variant)) =>
            v.username = "unknown"

\* An unban payload with unbanned_username alone (and the field name of the
\* ban payload holding another name) was parsed: the username is the
\* unbanned_username.
C28_Witness ==
  /\ lastOp = "parseMessage"
  /\ parsed[1].input.payload = "fields"
  /\ parsed[1].input.event = KickEvent("UserUnbanned")
  /\ parsed[1].input.body =
       [username |-> None(""), banned_username |-> Opt("y"),
        unbanned_username |-> Opt("z")]
  /\ parsed[1].output.ok
  /\ parsed[1].output.data.value =
       [username |-> "z", type |-> "user_unbanned"]

----------------------------------------------------------------------------
\* The frames the next handler sent, in the order it sent them.
SendSeqNext == SelectSeq(trace', LAMBDA e : e.k = "send")

\* The highest-priority origin of a topic in the handshake that the next
\* handler runs: 1 auto-derived, 2 caller-added name, 3 raw envelope.
OriginNext(ch) ==
  IF InSeq(ch, AutoTopics(channelId')) THEN 1
  ELSE IF InSeq(ch, customSubscriptions) THEN 2
  ELSE 3

\* C29: the handshake sends its subscribe frames in priority order: the
\* auto-derived topics first, then the caller-added topic names, then the
\* caller's raw envelopes, a topic of several origins counting for the
\* highest one.
C29_PriorityOrder ==
  [][ lastOp' = "open" =>
        \A j, k \in DOMAIN SendSeqNext :
          j < k => OriginNext(SendSeqNext[j].c) <= OriginNext(SendSeqNext[k].c)
    ]_vars

----------------------------------------------------------------------------
\* The transports that were created and have neither been asked to close nor
\* closed.
LiveTransports ==
  { t \in DOMAIN transports :
      transports[t].readyState \in {"connecting", "open"} }

\* C30: at most one transport is live at any time, and transports are
\* created by connection attempts only (one per attempt at most).
C30_OneLiveTransport ==
  /\ Cardinality(LiveTransports) <= 1
  /\ Len(transports) <= attempts

----------------------------------------------------------------------------
\* The connection attempts in progress: the metadata fetches in flight and
\* the transports that are opening.
Opening == { t \in DOMAIN transports : transports[t].readyState = "connecting" }
InProgress == Len(fetches) + Cardinality(Opening)

\* C31 (as claimed): at most one connection attempt is in progress at any
\* time, and an attempt started by the reconnect timer, or by connect()
\* called in state 'reconnecting' or 'error', starts only when no attempt is
\* in progress and the state is not 'connected'.
C31_OneAttemptInProgress ==
  [][ /\ Len(fetches') + Cardinality({ t \in DOMAIN transports' :
                            transports'[t].readyState = "connecting" }) <= 1
      /\ ( /\ HasKindNext("fetch")
           /\ \/ lastOp' = "reconnect"
              \/ lastOp' = "connect"
                   /\ connectionState \in {"reconnecting", "error"} )
         => InProgress = 0 /\ connectionState # "connected" ]_vars

\* The transitions of section 4.3, between the state a handler finds and the
\* state it leaves: connect() and the reconnect timer lead to 'connecting'
\* from every state but 'connected', a transport open leads from 'connecting'
\* to 'connected', and 'error', 'reconnecting' and 'disconnected' are entered
\* by the error, close and disconnect handlers.
Documented(from, to) ==
  \/ to = "connecting" /\ from \in {"disconnected", "error", "reconnecting"}
  \/ to = "connected" /\ from = "connecting"
  \/ to \in {"error", "reconnecting", "disconnected"}

\* C32 (as claimed): the state changes only through the documented
\* transitions, and it becomes 'connected' only from 'connecting', by a
\* transport open.
C32_DocumentedTransitions ==
  [][ connectionState' # connectionState =>
        /\ Documented(connectionState, connectionState')
        /\ connectionState' = "connected"
             => connectionState = "connecting" /\ lastOp' = "open" ]_vars

----------------------------------------------------------------------------
\* A wire event name that is neither a system event nor the name, namespaced
\* or bare, of a domain kind.
UnknownKind(ev) ==
  /\ ~IsSystemEvent(ev)
  /\ \A j \in DOMAIN DomainKinds :
       ev # KickEvent(DomainKinds[j]) /\ ev # LegacyName(DomainKinds[j])

\* A malformed frame (not a JSON object, or without a string event name), a
\* frame whose data is not a JSON string, and a frame of unknown kind.
Malformed(f) ==
  \/ f.text # "object"
  \/ ~f.hasEvent \/ ~f.eventIsString \/ f.event = << >>
MalformedNested(f) == f.data \in {"absent", "empty", "garbage", "object"}
Dropped(f) == Malformed(f) \/ MalformedNested(f) \/ UnknownKind(f.event)

\* C33: handling an inbound frame leaves the connection as it was: the
\* state, the transport reference and the transports, the reconnect timer,
\* the stored promise callbacks, the promises and the subscription lists are
\* unchanged; and for a malformed frame, a frame with malformed nested JSON
\* or a frame of unknown kind no domain event is emitted.
C33_FramesLeaveConnection ==
  [][ lastOp' = "message" =>
        /\ UNCHANGED managerVars
        /\ UNCHANGED envVars
        /\ Dropped(FrameNext) =>
             \A j \in DOMAIN trace' :
               trace'[j].k = "emit" => trace'[j].a = "rawMessage" ]_vars

\* A frame whose data is not JSON arrived on the open transport of a
\* connected manager and was dropped after its rawMessage.
C33_Witness ==
  /\ lastOp = "message"
  /\ connectionState = "connected" /\ ws # 0
  /\ Len(trace) = 2
  /\ Frames[trace[1].n].data = "garbage"
  /\ trace[2] = EffEmit("rawMessage", trace[1].n)
  /\ Len(parsed) = 1 /\ parsed[1].output = Null

----------------------------------------------------------------------------
\* The transport whose callback (open, error, close) the next handler is: the
\* one whose readyState the step changes without the manager's close().
CallbackOf(t) ==
  /\ lastOp' \in {"open", "error", "close"}
  /\ t \in DOMAIN transports
  /\ transports'[t] # transports[t]
  /\ transports'[t].sent = transports[t].sent

\* Transport t is no longer the current one while a later attempt is under
\* way or has given the current transport.
Superseded(t) ==
  /\ t # ws
  /\ connectionState = "connecting" \/ ws > t

\* C34 (as claimed): a callback of a transport that is no longer the current
\* one does not touch a later attempt: it leaves the state, the promises and
\* the stored promise callbacks as they are, schedules no reconnect and sends
\* no frame.
C34_StaleCallbacksIgnored ==
  [][ \A t \in DOMAIN transports :
        (CallbackOf(t) /\ Superseded(t)) =>
          /\ connectionState' = connectionState
          /\ promises' = promises
          /\ connectionResolver' = connectionResolver
          /\ connectionRejector' = connectionRejector
          /\ timers' = timers /\ reconnectTimer' = reconnectTimer
          /\ ~HasKindNext("send") ]_vars

----------------------------------------------------------------------------
\* C35 (as claimed): from disconnect() until the next connect() call (the
\* manual-disconnect flag is set exactly then) the state stays
\* 'disconnected': no handler moves it, emits 'error' or schedules a
\* reconnect.
C35_StaysDisconnected ==
  [][ (isManualDisconnect /\ lastOp' # "connect") =>
        /\ connectionState' = "disconnected"
        /\ ~HasKindNext("state") \/ lastOp' \in {"disconnect", "close"}
        /\ ~HasNext("emit", "error")
        /\ timers' = {} /\ ~HasNext("state", "reconnecting") ]_vars

----------------------------------------------------------------------------
\* The next handler is the timeout callback of the connect() call of
\* promise p: it ends with reject(error) of p, or does nothing at all.
TimeoutOfNext(p) ==
  /\ lastOp' = "timeout"
  /\ promises[p].timeout
  /\ IF trace' = << >> THEN ~promises'[p].timeout
     ELSE trace'[Len(trace')] = EffReject(p)

\* C36 (as claimed): when the timeout of a connect() call elapses after the
\* promise of that call has settled, it changes nothing: the state stays, no
\* 'error' event is emitted and no reconnect is scheduled.
C36_TimeoutAfterSettle ==
  [][ \A p \in DOMAIN promises :
        (TimeoutOfNext(p) /\ promises[p].status # "pending") =>
          /\ connectionState' = connectionState
          /\ ~HasNext("emit", "error")
          /\ ~HasKindNext("state")
          /\ timers' = timers /\ reconnectTimer' = reconnectTimer ]_vars

----------------------------------------------------------------------------
\* The topics the payload of 'ready' lists, in the last handler.
ReadyTopics ==
  { trace[j].c : j \in { k \in DOMAIN trace : trace[k].k = "ready-topic" } }

\* C37 (as claimed): every topic the payload of 'ready' lists had its
\* subscribe frame sent, by the handshake that emits the event, on the
\* transport that is the current one when the event is emitted.
C37_ReadyListsSentTopics ==
  (lastOp = "open" /\ Has("emit", "ready")) =>
    \A ch \in ReadyTopics :
      /\ ws # 0 /\ ch \in transports[ws].sent
      /\ \E j \in DOMAIN trace : trace[j] = EffSend("pusher:subscribe", ws, ch)

----------------------------------------------------------------------------
\* The connection lifecycle when the runtime delivers what is pending: every
\* armed connect timeout elapses, every metadata fetch returns or fails,
\* every opening transport opens or fails, every transport that was asked to
\* close or failed reports its close, and the reconnect timer fires.  The
\* caller's calls and the relay's close of an open transport are not forced.
FetchSettles(i) == FetchOk(i) \/ FetchFail(i)
TransportSettles(t) == TransportOpen(t) \/ TransportError(t)
ClosingReported(t) ==
  /\ t \in DOMAIN transports
  /\ transports[t].closeDue \/ transports[t].readyState = "closing"
  /\ TransportClose(t)

SpecFair ==
  /\ Init
  /\ [][Next]_vars
  /\ \A p \in 1..MaxAttempts : WF_vars(ConnectTimeout(p))
  /\ WF_vars(\E i \in DOMAIN fetches : FetchSettles(i))
  /\ WF_vars(\E t \in DOMAIN transports : TransportSettles(t))
  /\ WF_vars(\E t \in DOMAIN transports : ClosingReported(t))
  /\ WF_vars(\E id \in timers : ReconnectFire(id))

\* C38 (as claimed): the promise of every connect() call that started an
\* attempt is eventually resolved or rejected.
C38_EveryPromiseSettles ==
  \A p \in 1..MaxAttempts :
    (Len(promises) >= p)
      ~> (Len(promises) >= p /\ promises[p].status # "pending")

----------------------------------------------------------------------------
\* C39: whenever the state is 'reconnecting' the reconnect timer the manager
\* holds is pending; and under autoReconnect without the manual-disconnect
\* flag every failed attempt (its metadata fetch fails, or its transport
\* reports its close), whether connect() or the reconnect timer started it
\* and however many attempts were made before, leaves a reconnect scheduled.
C39_ReconnectingHasTimer ==
  /\ [](connectionState = "reconnecting"
          => reconnectTimer # 0 /\ timers = {reconnectTimer})
  /\ [][ ( /\ lastOp' \in {"fetchFail", "close"}
           /\ options.autoReconnect /\ ~isManualDisconnect )
         => /\ connectionState' = "reconnecting"
            /\ HasNext("state", "reconnecting")
            /\ reconnectTimer' # 0 /\ timers' = {reconnectTimer'}
            /\ reconnectTimer' \notin timers ]_vars

\* The metadata fetch of an attempt the reconnect timer started failed, at
\* the last attempt within the bound: the next reconnect is scheduled.
C39_Witness ==
  /\ lastOp = "fetchFail"
  /\ attempts = MaxAttempts /\ Len(promises) = 1
  /\ Has("log", "Reconnection failed")
  /\ ~isManualDisconnect /\ options.autoReconnect
  /\ connectionState = "reconnecting"
  /\ timers = {reconnectTimer}

----------------------------------------------------------------------------
\* getCustomSubscriptions(): copies of the two lists.
getCustomSubscriptions(s) ==
  [channels |-> s.customSubscriptions, messages |-> s.subscriptionMessages]

\* The lists the manager stores after the next handler.
ListsNext ==
  [customSubscriptions |-> customSubscriptions',
   subscriptionMessages |-> subscriptionMessages']

\* C40 (as claimed): only the caller's add and clear calls change what
\* getCustomSubscriptions() returns: a transport open, with its handshake,
\* leaves the stored topic names and envelopes as they were, so the list of
\* names does not grow with the number of opens.
C40_HandshakeKeepsLists ==
  [][ lastOp' \notin ListOps =>
        getCustomSubscriptions(ListsNext) = getCustomSubscriptions(Cur) ]_vars

====
